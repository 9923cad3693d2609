--------------------------- MODULE EndingsProofs ---------------------------
(***************************************************************************)
(* Proofs about components of MCEndings, and of three more of MCSession.   *)
(* AdminTokens: type correctness, and that reads share one token of which  *)
(* the user sees only what the server has revoked, for any number of reads *)
(* and retries and any credential.  StreamedCommand: type correctness, and *)
(* that no line of a command is lost but those still in the channel, for   *)
(* any sizes.                                                              *)
(* OperatorRequests, whose commands those are: type correctness, and that  *)
(* a local mutation does what its review showed and is told as verified    *)
(* only when it was, for any accounts, devices, policies and daemon.       *)
(* DeviceView: the selection, the cached rows and the histories through    *)
(* refreshes and changes of route, for any devices, filters and history.   *)
(* SavedViews: that saved views can be read back and list nothing that     *)
(* they did not when they were saved, for any titles, lines, operations,   *)
(* restarts and failed writes.                                             *)
(***************************************************************************)
EXTENDS AdminTokens, StreamedCommand, OperatorRequests, DeviceView, SavedViews, FiniteSetTheorems, SequenceTheorems, TLAPS

-----------------------------------------------------------------------------
(* The inductive invariant *)

\* The lock is held across an exchange, and for nothing else.
Exchanging == {"exchange", "reexchange"}
LockIsHeld == \A c \in Calls : call[c].step \in Exchanging <=> mutex = c

\* The cached token is the last one; none is issued without a credential, and
\* none exchanged for while one is fresh.
CacheIsNewest ==
    /\ cache.tok = issued
    /\ issued = 0 => ~cache.fresh
    /\ issued > 0 \/ mutex # Nobody => credential.stored
    /\ mutex # Nobody => credential.oauth /\ ~cache.fresh

\* An OAuth client's secret is exchanged once for each time the token lapsed.
OnePerLapse == credential.oauth => issued = lapsed + IF cache.fresh THEN 1 ELSE 0

\* A token that nobody revoked is refused only where it is too old to matter:
\* it has lapsed, and no read depends on it.
Lived ==
    /\ \A t \in 1..issued : t \notin accepted => credential.oauth /\ (t < issued \/ ~cache.fresh)
    /\ \A c \in Calls :
          /\ call[c].step \in {"call", "refused"} =>
                \A t \in 1..issued : t > call[c].tok => t \in accepted
          /\ call[c].step = "again" => call[c].tok \in accepted
          /\ call[c].step = "refused" => call[c].tok \notin accepted
          /\ call[c].result # "Unauthenticated"

\* What a read carries.
Carried ==
    \A c \in Calls :
        /\ call[c].step \in {"call", "refused", "again"} => call[c].tok > 0
        /\ call[c].step = "refused" => call[c].refused = call[c].tok

TokensInv == TokensTypeOK /\ LockIsHeld /\ CacheIsNewest /\ OnePerLapse /\ Carried /\ (revoked = {} => Lived)

-----------------------------------------------------------------------------
(* Type correctness *)

LEMMA InitType == TokensInit => TokensTypeOK
BY TokensAssumption DEF TokensInit, TokensTypeOK, NoToken, NotBegun, Nobody, Steps, Results

\* What is left of a credential's chances is of its type.
LEMMA SpentTypes ==
    ASSUME TokensTypeOK
    PROVE  /\ credential.faults > 0 =>
                /\ [credential EXCEPT !.faults = @ - 1] \in
                      [oauth : BOOLEAN, stored : BOOLEAN, lapses : Nat, faults : Nat, revoked : Nat]
           /\ credential.revoked > 0 =>
                /\ [credential EXCEPT !.revoked = @ - 1] \in
                      [oauth : BOOLEAN, stored : BOOLEAN, lapses : Nat, faults : Nat, revoked : Nat]
BY DEF TokensTypeOK

\* So are the reads when one ends, and the cache when its token lapses.
LEMMA EndedTypes ==
    ASSUME TokensTypeOK
    PROVE  /\ \A c \in Calls : \A r \in Results :
                [call EXCEPT ![c].step = "ended", ![c].result = r] \in
                  [Calls -> [step : Steps, tok : 0..issued, refused : 0..issued,
                             attempt : 0..MaxRetries, result : Results]]
           /\ [cache EXCEPT !.fresh = FALSE] \in [tok : 0..issued, fresh : BOOLEAN]
<1>1. \A x \in [tok : 0..issued, fresh : BOOLEAN] :
        [x EXCEPT !.fresh = FALSE] \in [tok : 0..issued, fresh : BOOLEAN]
  OBVIOUS
<1>2. \A c \in Calls : \A r \in Results :
        [call EXCEPT ![c].step = "ended", ![c].result = r] \in
          [Calls -> [step : Steps, tok : 0..issued, refused : 0..issued,
                     attempt : 0..MaxRetries, result : Results]]
  <2> DEFINE R == [step : Steps, tok : 0..issued, refused : 0..issued,
                   attempt : 0..MaxRetries, result : Results]
  <2>1. \A x \in R : \A r \in Results : [x EXCEPT !.step = "ended", !.result = r] \in R
    BY DEF Steps
  <2>2. call \in [Calls -> R]
    BY DEF TokensTypeOK
  <2> HIDE DEF R
  <2>3. ASSUME NEW c \in Calls, NEW r \in Results
        PROVE  [call EXCEPT ![c] = [call[c] EXCEPT !.step = "ended", !.result = r]] \in [Calls -> R]
    BY <2>1, <2>2
  <2>4. \A c \in Calls : \A r \in Results :
          [call EXCEPT ![c].step = "ended", ![c].result = r] =
            [call EXCEPT ![c] = [call[c] EXCEPT !.step = "ended", !.result = r]]
    BY <2>2
  <2> QED
    BY <2>3, <2>4 DEF R
<1> QED
  BY <1>1, <1>2 DEF TokensTypeOK

\* A step of a read changes its own record only, within its type.
LEMMA TypeStep == TokensTypeOK /\ [TokensNext]_tokenVars => TokensTypeOK'
<1> SUFFICES ASSUME TokensTypeOK, [TokensNext]_tokenVars
             PROVE  TokensTypeOK'
  OBVIOUS
<1> USE DEF TokensTypeOK, Unmarked, Server, Nobody
<1>1. ASSUME NEW c \in Calls, BeginRead(c)
      PROVE  TokensTypeOK'
  BY <1>1 DEF BeginRead, Steps
<1>2. ASSUME NEW c \in Calls, AccessToken(c)
      PROVE  TokensTypeOK'
  BY <1>2, TokensAssumption DEF AccessToken, Goes, Ends, Issue, Steps, Results, CanLock
<1>3. ASSUME NEW c \in Calls, Exchanged(c)
      PROVE  TokensTypeOK'
  BY <1>3, TokensAssumption DEF Exchanged, Goes, Issue, Steps
<1>4. ASSUME NEW c \in Calls, ExchangeFails(c)
      PROVE  TokensTypeOK'
  BY <1>4, SpentTypes, EndedTypes DEF ExchangeFails, Ends, Fault, Results
<1>5. ASSUME NEW c \in Calls, Attempt(c)
      PROVE  TokensTypeOK'
  BY <1>5, SpentTypes, TokensAssumption DEF Attempt, Ends, Fault, CanRetry, Steps, Results
<1>6. ASSUME NEW c \in Calls, RefreshToken(c)
      PROVE  TokensTypeOK'
  BY <1>6, TokensAssumption DEF RefreshToken, Goes, Ends, Another, Renewable, CanLock, Steps, Results
<1>7. ASSUME NEW c \in Calls, CancelRead(c)
      PROVE  TokensTypeOK'
  BY <1>7, EndedTypes DEF CancelRead, Ends, Unlocked, Results
<1>8. CASE TokenLapses
  <2>1. cache' = [cache EXCEPT !.fresh = FALSE] /\ lapsed' = lapsed + 1
    BY <1>8 DEF TokenLapses
  <2>2. UNCHANGED <<credential, mutex, issued, accepted, revoked, call>>
    BY <1>8 DEF TokenLapses
  <2>3. cache' \in [tok : 0..issued, fresh : BOOLEAN]
    BY <2>1, EndedTypes
  <2>4. lapsed' \in Nat
    BY <2>1
  <2> QED
    BY <2>2, <2>3, <2>4
<1>9. CASE TokenExpires
  BY <1>9 DEF TokenExpires
<1>10. CASE TokenRevoked
  BY <1>10, SpentTypes DEF TokenRevoked
<1>11. CASE UNCHANGED tokenVars
  BY <1>11 DEF tokenVars
<1> QED
  BY <1>1, <1>2, <1>3, <1>4, <1>5, <1>6, <1>7, <1>8, <1>9, <1>10, <1>11 DEF TokensNext, ReadStep

\* Every state has the types of TokensTypeOK, for any calls and retries.
THEOREM TokensTypeCorrect == TokensSpec => []TokensTypeOK
<1> QED
  BY InitType, TypeStep, PTL DEF TokensSpec

-----------------------------------------------------------------------------
(* The invariant *)

LEMMA InitInv == TokensInit => TokensInv
<1> SUFFICES ASSUME TokensInit
             PROVE  TokensInv
  OBVIOUS
<1>1. TokensTypeOK
  BY InitType
<1>2. LockIsHeld /\ CacheIsNewest /\ OnePerLapse /\ Carried /\ Lived
  BY TokensAssumption DEF TokensInit, NoToken, NotBegun, Nobody, LockIsHeld, CacheIsNewest, OnePerLapse,
     Carried, Lived, Exchanging
<1> QED
  BY <1>1, <1>2 DEF TokensInv

\* The lock, the cache and the count of tokens are kept by every step.
LEMMA LockStep ==
    ASSUME TokensInv, [TokensNext]_tokenVars
    PROVE  LockIsHeld' /\ CacheIsNewest' /\ OnePerLapse' /\ Carried'
<1> USE DEF TokensInv, TokensTypeOK, Unmarked, Server, Nobody, LockIsHeld, CacheIsNewest, OnePerLapse,
            Carried, Exchanging
<1>1. ASSUME NEW c \in Calls, BeginRead(c)
      PROVE  LockIsHeld' /\ CacheIsNewest' /\ OnePerLapse' /\ Carried'
  BY <1>1, TokensAssumption DEF BeginRead
<1>2. ASSUME NEW c \in Calls, AccessToken(c)
      PROVE  LockIsHeld' /\ CacheIsNewest' /\ OnePerLapse' /\ Carried'
  BY <1>2, TokensAssumption DEF AccessToken, Goes, Ends, Issue, CanLock
<1>3. ASSUME NEW c \in Calls, Exchanged(c)
      PROVE  LockIsHeld' /\ CacheIsNewest' /\ OnePerLapse' /\ Carried'
  BY <1>3, TokensAssumption DEF Exchanged, Goes, Issue
<1>4. ASSUME NEW c \in Calls, ExchangeFails(c)
      PROVE  LockIsHeld' /\ CacheIsNewest' /\ OnePerLapse' /\ Carried'
  BY <1>4, TokensAssumption DEF ExchangeFails, Ends, Fault
<1>5. ASSUME NEW c \in Calls, Attempt(c)
      PROVE  LockIsHeld' /\ CacheIsNewest' /\ OnePerLapse' /\ Carried'
  BY <1>5, TokensAssumption DEF Attempt, Ends, Fault
<1>6. ASSUME NEW c \in Calls, RefreshToken(c)
      PROVE  LockIsHeld' /\ CacheIsNewest' /\ OnePerLapse' /\ Carried'
  BY <1>6, TokensAssumption DEF RefreshToken, Goes, Ends, CanLock, Another, Renewable
<1>7. ASSUME NEW c \in Calls, CancelRead(c)
      PROVE  LockIsHeld' /\ CacheIsNewest' /\ OnePerLapse' /\ Carried'
  BY <1>7, TokensAssumption DEF CancelRead, Ends, Unlocked
<1>8. CASE TokenLapses
  BY <1>8 DEF TokenLapses
<1>9. CASE TokenExpires
  BY <1>9 DEF TokenExpires
<1>10. CASE TokenRevoked
  BY <1>10 DEF TokenRevoked
<1>11. CASE UNCHANGED tokenVars
  BY <1>11 DEF tokenVars
<1> QED
  BY <1>1, <1>2, <1>3, <1>4, <1>5, <1>6, <1>7, <1>8, <1>9, <1>10, <1>11 DEF TokensNext, ReadStep

\* As long as no token has been revoked, one that is not accepted has lapsed
\* and is needed by no read.
LEMMA LivedStep ==
    ASSUME TokensInv, [TokensNext]_tokenVars
    PROVE  (revoked = {} => Lived)'
<1> SUFFICES ASSUME revoked' = {}
             PROVE  Lived'
  OBVIOUS
<1>a. revoked = {}
  BY DEF TokensNext, ReadStep, tokenVars, BeginRead, AccessToken, Exchanged, ExchangeFails, Attempt,
         RefreshToken, CancelRead, TokenLapses, TokenExpires, TokenRevoked, Unmarked
<1> USE <1>a DEF TokensInv, TokensTypeOK, Unmarked, Server, Nobody, LockIsHeld, CacheIsNewest,
            Carried, Exchanging, Lived
<1>1. ASSUME NEW c \in Calls, BeginRead(c)
      PROVE  Lived'
  BY <1>1, TokensAssumption DEF BeginRead
<1>2. ASSUME NEW c \in Calls, AccessToken(c)
      PROVE  Lived'
  BY <1>2, TokensAssumption DEF AccessToken, Goes, Ends, Issue, CanLock
<1>3. ASSUME NEW c \in Calls, Exchanged(c)
      PROVE  Lived'
  BY <1>3, TokensAssumption DEF Exchanged, Goes, Issue
<1>4. ASSUME NEW c \in Calls, ExchangeFails(c)
      PROVE  Lived'
  BY <1>4, TokensAssumption DEF ExchangeFails, Ends, Fault
<1>5. ASSUME NEW c \in Calls, Attempt(c)
      PROVE  Lived'
  BY <1>5, TokensAssumption DEF Attempt, Ends, Fault
<1>6. ASSUME NEW c \in Calls, RefreshToken(c)
      PROVE  Lived'
  BY <1>6, TokensAssumption DEF RefreshToken, Goes, Ends, CanLock, Another, Renewable
<1>7. ASSUME NEW c \in Calls, CancelRead(c)
      PROVE  Lived'
  BY <1>7, TokensAssumption DEF CancelRead, Ends, Unlocked
<1>8. CASE TokenLapses
  BY <1>8 DEF TokenLapses
<1>9. CASE TokenExpires
  BY <1>9 DEF TokenExpires
<1>10. CASE TokenRevoked
  BY <1>10 DEF TokenRevoked
<1>11. CASE UNCHANGED tokenVars
  BY <1>11 DEF tokenVars
<1> QED
  BY <1>1, <1>2, <1>3, <1>4, <1>5, <1>6, <1>7, <1>8, <1>9, <1>10, <1>11 DEF TokensNext, ReadStep

LEMMA InvStep == TokensInv /\ [TokensNext]_tokenVars => TokensInv'
BY TypeStep, LockStep, LivedStep DEF TokensInv

LEMMA Invariance == TokensSpec => []TokensInv
BY InitInv, InvStep, PTL DEF TokensSpec

\* However many reads find the token lapsed or refused, the secret is exchanged
\* once for each time it lapsed, and once at first; and a read is told that it
\* is not authenticated only if the server has revoked a token
\* (TokenManager::access_token, refresh_after_unauthenticated).
THEOREM Shared == TokensSpec => []TokenIsShared
<1>1. TokensInv => TokenIsShared
  BY DEF TokensInv, TokensTypeOK, OnePerLapse, Lived, TokenIsShared
<1> QED
  BY <1>1, Invariance, PTL

-----------------------------------------------------------------------------
(* StreamedCommand: the invariant *)

\* The lines of a stream the loop has taken, and those its reader has sent.
LinesTaken(s) == IF inHand.stream = s THEN Len(handled[s]) + 1 ELSE Len(handled[s])
LinesSent(s) == IF reader[s].step = "sending" THEN reader[s].taken - 1 ELSE reader[s].taken

\* The channel holds what was sent and not taken, each line once and in order.
InChannel(s) ==
    /\ LinesTaken(s) <= LinesSent(s)
    /\ \A i \in DOMAIN lines : lines[i].stream = s => lines[i].n \in (LinesTaken(s) + 1)..LinesSent(s)
    /\ \A n \in (LinesTaken(s) + 1)..LinesSent(s) : \E i \in DOMAIN lines : lines[i].stream = s /\ lines[i].n = n
    /\ \A i, j \in DOMAIN lines : i < j /\ lines[i].stream = s /\ lines[j].stream = s => lines[i].n < lines[j].n

Delivered(s) ==
    /\ \A i \in DOMAIN handled[s] : handled[s][i] = i
    /\ inHand.stream = s => inHand.n = Len(handled[s]) + 1

\* A reader keeps what it may, and ends when its pipe does.
Keeps(s) ==
    /\ reader[s].taken <= written[s]
    /\ reader[s].kept = Smaller(reader[s].taken, OutputLimit)
    /\ reader[s].truncated <=> reader[s].taken > OutputLimit
    /\ reader[s].step = "ended" => reader[s].taken = written[s] /\ child # "running" /\ ~heir

\* No one waits for more than is left.
Concludes ==
    /\ waiter # "waiting" => child # "running"
    /\ waiter = "done" <=> loop = "ended"
    /\ verdict = "cancelled" => stopping
    /\ loop = "handling" <=> inHand # NoLine
    /\ loop = "ended" => ReadersDone /\ told = EndToTell
    /\ loop # "ended" => told = "nothing"
    /\ ~Streaming => loop \in {"awaiting", "ended"}

CommandInv ==
    /\ CommandTypeOK
    /\ Concludes
    /\ \A s \in Streams : Keeps(s) /\ Delivered(s) /\ (Streaming => InChannel(s))

LEMMA ChannelAppended ==
    ASSUME NEW box \in Seq(Lines), NEW e \in Lines
    PROVE  /\ Append(box, e) \in Seq(Lines)
           /\ Len(box) \in Nat
           /\ DOMAIN box = 1..Len(box) /\ DOMAIN Append(box, e) = 1..(Len(box) + 1)
           /\ \A i \in 1..Len(box) : Append(box, e)[i] = box[i]
           /\ Append(box, e)[Len(box) + 1] = e
           /\ Len(Append(box, e)) = Len(box) + 1
OBVIOUS

LEMMA ChannelTail ==
    ASSUME NEW box \in Seq(Lines), box # <<>>
    PROVE  /\ Tail(box) \in Seq(Lines)
           /\ Head(box) \in Lines /\ Head(box) = box[1]
           /\ Len(box) \in Nat /\ Len(box) > 0
           /\ DOMAIN box = 1..Len(box) /\ DOMAIN Tail(box) = 1..(Len(box) - 1)
           /\ \A i \in 1..(Len(box) - 1) : Tail(box)[i] = box[i + 1]
           /\ Len(Tail(box)) = Len(box) - 1
OBVIOUS

LEMMA NumbersAppended ==
    ASSUME NEW list \in Seq(Nat), NEW n \in Nat
    PROVE  /\ Append(list, n) \in Seq(Nat)
           /\ Len(list) \in Nat /\ Len(Append(list, n)) = Len(list) + 1
           /\ DOMAIN list = 1..Len(list) /\ DOMAIN Append(list, n) = 1..(Len(list) + 1)
           /\ \A i \in 1..Len(list) : Append(list, n)[i] = list[i]
           /\ Append(list, n)[Len(list) + 1] = n
OBVIOUS

LEMMA LineCounts ==
    ASSUME CommandTypeOK, NEW s \in Streams
    PROVE  /\ Len(handled[s]) \in Nat /\ LinesTaken(s) \in Nat /\ LinesSent(s) \in Int
           /\ reader[s] \in PipeReaders /\ reader[s].taken \in Nat
           /\ written[s] \in Nat
<1>1. reader[s] \in PipeReaders /\ written[s] \in Nat /\ handled[s] \in Seq(Nat)
  BY DEF CommandTypeOK
<1>2. reader[s].taken \in Nat /\ Len(handled[s]) \in Nat
  <2>1. reader[s].taken \in Nat
    BY <1>1 DEF PipeReaders
  <2>2. Len(handled[s]) \in Nat
    BY <1>1
  <2> QED
    BY <2>1, <2>2
<1>3. LinesTaken(s) \in Nat
  <2>1. LinesTaken(s) = Len(handled[s]) \/ LinesTaken(s) = Len(handled[s]) + 1
    BY <1>2 DEF LinesTaken
  <2> QED
    BY <1>2, <2>1
<1>4. LinesSent(s) \in Int
  BY <1>2 DEF LinesSent
<1> QED
  BY <1>1, <1>2, <1>3, <1>4

LEMMA CommandSizes == LineSlots \in Nat /\ LineSlots > 0 /\ OutputLimit \in Nat
BY CommandAssumption

\* What a step changes of neither the channel nor its ends.
LEMMA ChannelKept ==
    ASSUME NEW s \in Streams, InChannel(s), UNCHANGED <<lines, handled, inHand>>,
           LinesSent(s)' = LinesSent(s)
    PROVE  InChannel(s)'
BY DEF InChannel, LinesTaken

LEMMA DeliveredKept ==
    ASSUME NEW s \in Streams, Delivered(s), UNCHANGED <<handled, inHand>>
    PROVE  Delivered(s)'
BY DEF Delivered

LEMMA CommandInvInit ==
    ASSUME CommandInit PROVE CommandInv
<1>1. command.heir \in BOOLEAN
  BY CommandAssumption DEF CommandInit
<1> DEFINE r == [step |-> "reading", taken |-> 0, kept |-> 0, truncated |-> FALSE]
<1>2. r \in PipeReaders /\ r.step = "reading" /\ r.taken = 0 /\ r.kept = 0 /\ r.truncated = FALSE
  BY DEF PipeReaders
<1>3. reader = [s \in Streams |-> r]
  BY DEF CommandInit
<1> HIDE DEF r
<1>4. reader \in [Streams -> PipeReaders] /\ \A s \in Streams : reader[s] = r
  BY <1>2, <1>3
<1>5. handled \in [Streams -> Seq(Nat)] /\ \A s \in Streams : handled[s] = <<>>
  BY DEF CommandInit
<1>6. lines = <<>> /\ lines \in Seq(Lines) /\ Len(lines) = 0 /\ DOMAIN lines = {}
  BY DEF CommandInit
<1>7. written \in [Streams -> Nat] /\ \A s \in Streams : written[s] = 0
  BY DEF CommandInit
<1>8. CommandTypeOK
  <2>1. command \in CommandBounds /\ inHand = NoLine
    BY DEF CommandInit
  <2>2. loop \in {"selecting", "handling", "awaiting", "ended"}
    BY DEF CommandInit
  <2>3. heir \in BOOLEAN /\ stopping \in BOOLEAN
    BY <1>1 DEF CommandInit
  <2>4. child = "running" /\ waiter = "waiting" /\ verdict = "none" /\ told = "nothing"
    BY DEF CommandInit
  <2> QED
    BY <1>4, <1>5, <1>6, <1>7, <2>1, <2>2, <2>3, <2>4, CommandSizes DEF CommandTypeOK
<1>9. Concludes
  BY DEF Concludes, CommandInit, Streaming
<1>10. inHand.stream = "none"
  BY DEF CommandInit, NoLine
<1>11. ASSUME NEW s \in Streams PROVE Keeps(s) /\ Delivered(s) /\ InChannel(s)
  <2>1. Keeps(s)
    BY <1>2, <1>4, <1>7, CommandAssumption DEF Keeps, Smaller
  <2>2. Delivered(s)
    BY <1>5, <1>10 DEF Delivered, Streams
  <2>3. LinesTaken(s) = 0 /\ LinesSent(s) = 0
    <3>1. inHand.stream # s /\ Len(handled[s]) = 0
      BY <1>5, <1>10 DEF Streams
    <3>2. reader[s].step = "reading" /\ reader[s].taken = 0
      BY <1>2, <1>4
    <3> QED
      BY <3>1, <3>2 DEF LinesTaken, LinesSent
  <2>4. InChannel(s)
    BY <1>6, <2>3 DEF InChannel
  <2> QED
    BY <2>1, <2>2, <2>4
<1> QED
  BY <1>8, <1>9, <1>11 DEF CommandInv

-----------------------------------------------------------------------------
(* The child, the waiter and the cancellation: the channel is left alone *)

LEMMA ChildKeepsInv ==
    ASSUME CommandInv, ChildWorks
    PROVE  CommandInv'
<1>1. UNCHANGED <<command, stopping, reader, lines, waiter, verdict, loop, inHand, handled, told>>
  BY DEF ChildWorks, ChildExits, HeirEnds, ChildWrites, TaleRests
<1>2. /\ written' \in [Streams -> Nat] /\ child' \in {"running", "exited", "killed"} /\ heir' \in BOOLEAN
      /\ \A s \in Streams : written'[s] >= written[s]
      /\ child # "running" => child' = child /\ written' = written
      /\ ~heir => ~heir'
  <2>0. written \in [Streams -> Nat] /\ child \in {"running", "exited", "killed"} /\ heir \in BOOLEAN
    BY DEF CommandInv, CommandTypeOK
  <2>1. CASE ChildExits
    BY <2>0, <2>1 DEF ChildExits
  <2>2. CASE HeirEnds
    <3>1. heir' = FALSE /\ UNCHANGED <<child, written>>
      BY <2>2 DEF HeirEnds
    <3>2. heir' \in BOOLEAN /\ ~heir'
      BY <3>1
    <3>3. \A s \in Streams : written'[s] >= written[s]
      BY <2>0, <3>1
    <3> QED
      BY <2>0, <3>1, <3>2, <3>3
  <2>3. ASSUME NEW s \in Streams, ChildWrites(s)
        PROVE  /\ written' \in [Streams -> Nat] /\ UNCHANGED <<child, heir>> /\ child = "running"
               /\ \A t \in Streams : written'[t] >= written[t]
    BY <2>0, <2>3 DEF ChildWrites
  <2> QED
    BY <2>0, <2>1, <2>2, <2>3 DEF ChildWorks
<1>3. CommandTypeOK'
  BY <1>1, <1>2 DEF CommandInv, CommandTypeOK
<1>4. Concludes'
  <2>1. Concludes
    BY DEF CommandInv
  <2> QED
    BY <1>1, <1>2, <2>1 DEF Concludes, ReadersDone, EndToTell, Streaming
<1>5. ASSUME NEW s \in Streams PROVE Keeps(s)'
  <2>1. Keeps(s) /\ reader[s].taken \in Nat /\ written[s] \in Nat /\ written'[s] \in Nat
    BY <1>2, LineCounts DEF CommandInv
  <2> QED
    BY <1>1, <1>2, <2>1 DEF Keeps
<1>6. ASSUME NEW s \in Streams PROVE Delivered(s)' /\ (Streaming' => InChannel(s)')
  BY <1>1, ChannelKept, DeliveredKept DEF CommandInv, Streaming, LinesSent
<1> QED
  BY <1>3, <1>4, <1>5, <1>6 DEF CommandInv

LEMMA WaiterKeepsInv ==
    ASSUME CommandInv, WaiterWorks \/ CancelCommand
    PROVE  CommandInv'
<1>1. UNCHANGED <<command, heir, written, reader, lines, inHand, handled>>
  BY DEF WaiterWorks, SeesExit, TimesOut, SeesCancellation, Kills, CommandEnds, CancelCommand, ReadersRest
<1>2. CommandTypeOK /\ Concludes
  BY DEF CommandInv
<1>3. /\ child # "running" => child' = child
      /\ CommandTypeOK' /\ Concludes'
  <2>1. CASE SeesExit
    BY <1>1, <1>2, <2>1 DEF SeesExit, EndsWaiting, CommandTypeOK, Concludes, Polled, ReadersDone, EndToTell, Streaming
  <2>2. CASE TimesOut
    BY <1>1, <1>2, <2>2 DEF TimesOut, Kills, EndsWaiting, CommandTypeOK, Concludes, Polled, ReadersDone, EndToTell, Streaming
  <2>3. CASE SeesCancellation
    BY <1>1, <1>2, <2>3 DEF SeesCancellation, Kills, EndsWaiting, CommandTypeOK, Concludes, Polled, ReadersDone, EndToTell, Streaming
  <2>4. CASE CommandEnds
    <3>1. EndToTell \in {"succeeded", "failed", "cancelled"}
      BY DEF EndToTell
    <3>2. /\ waiter' = "done" /\ loop' = "ended" /\ told' = EndToTell /\ ReadersDone /\ waiter = "joining"
          /\ loop \in {"selecting", "awaiting"} /\ UNCHANGED <<stopping, child, verdict>>
      BY <2>4 DEF CommandEnds, Polled
    <3>3. CommandTypeOK'
      BY <1>1, <1>2, <3>1, <3>2 DEF CommandTypeOK
    <3>4. EndToTell' = EndToTell /\ ReadersDone'
      BY <1>1, <3>2 DEF EndToTell, ReadersDone
    <3>5. Concludes'
      BY <1>1, <1>2, <3>2, <3>4 DEF Concludes, Streaming
    <3> QED
      BY <3>2, <3>3, <3>5
  <2>5. CASE CancelCommand
    BY <1>1, <1>2, <2>5 DEF CancelCommand, CommandTypeOK, Concludes, ReadersDone, EndToTell, Streaming
  <2> QED
    BY <2>1, <2>2, <2>3, <2>4, <2>5 DEF WaiterWorks
<1>4. ASSUME NEW s \in Streams PROVE Keeps(s)'
  BY <1>1, <1>3 DEF Keeps, CommandInv
<1>5. ASSUME NEW s \in Streams PROVE Delivered(s)' /\ (Streaming' => InChannel(s)')
  BY <1>1, ChannelKept, DeliveredKept DEF CommandInv, Streaming, LinesSent
<1> QED
  BY <1>3, <1>4, <1>5 DEF CommandInv

-----------------------------------------------------------------------------
(* The readers *)

LEMMA ReaderTypes ==
    ASSUME CommandTypeOK, reader' \in [Streams -> PipeReaders], lines' \in Seq(Lines), Len(lines') <= LineSlots,
           UNCHANGED <<command, stopping, child, heir, written, waiter, verdict, loop, inHand, handled, told>>
    PROVE  CommandTypeOK'
<1>1. /\ command' \in CommandBounds /\ stopping' \in BOOLEAN /\ heir' \in BOOLEAN
      /\ child' \in {"running", "exited", "killed"}
  BY DEF CommandTypeOK
<1>2. written' \in [Streams -> Nat] /\ handled' \in [Streams -> Seq(Nat)] /\ inHand' \in Lines \cup {NoLine}
  BY DEF CommandTypeOK
<1>3. /\ waiter' \in {"waiting", "joining", "done"}
      /\ verdict' \in {"none", "exited", "timed out", "cancelled"}
      /\ loop' \in {"selecting", "handling", "awaiting", "ended"}
      /\ told' \in {"nothing", "succeeded", "failed", "cancelled"}
  BY DEF CommandTypeOK
<1> QED
  BY <1>1, <1>2, <1>3 DEF CommandTypeOK

LEMMA ReaderChanged ==
    ASSUME CommandTypeOK, NEW s \in Streams, NEW r \in PipeReaders, reader' = [reader EXCEPT ![s] = r]
    PROVE  reader' \in [Streams -> PipeReaders] /\ reader'[s] = r /\ \A t \in Streams \ {s} : reader'[t] = reader[t]
BY DEF CommandTypeOK

LEMMA StepChanged ==
    ASSUME CommandTypeOK, NEW s \in Streams, NEW step \in {"reading", "ended"}, reader' = [reader EXCEPT ![s].step = step]
    PROVE  /\ reader' \in [Streams -> PipeReaders] /\ \A t \in Streams \ {s} : reader'[t] = reader[t]
           /\ reader'[s].step = step /\ reader'[s].taken = reader[s].taken
           /\ reader'[s].kept = reader[s].kept /\ reader'[s].truncated = reader[s].truncated
<1> DEFINE r == [reader[s] EXCEPT !.step = step]
<1>1. reader[s] \in PipeReaders
  BY DEF CommandTypeOK
<1>2. r \in PipeReaders /\ r.step = step /\ r.taken = reader[s].taken /\ r.kept = reader[s].kept
      /\ r.truncated = reader[s].truncated
  BY <1>1 DEF PipeReaders
<1>3. reader' = [reader EXCEPT ![s] = r]
  OBVIOUS
<1> HIDE DEF r
<1> QED
  BY <1>2, <1>3, ReaderChanged

LEMMA ReaderConcludes ==
    ASSUME Concludes, UNCHANGED <<command, stopping, child, waiter, verdict, loop, inHand, handled, told>>,
           \A s \in Streams : reader[s].step = "ended" => reader'[s].step = "ended"
    PROVE  Concludes'
BY DEF Concludes, ReadersDone, EndToTell, Streaming

LEMMA TakesKeepsInv ==
    ASSUME CommandInv, NEW s \in Streams, ReaderTakes(s)
    PROVE  CommandInv'
<1> DEFINE r == [step      |-> IF Streaming THEN "sending" ELSE "reading",
                 taken     |-> reader[s].taken + 1,
                 kept      |-> Smaller(reader[s].taken + 1, OutputLimit),
                 truncated |-> reader[s].taken + 1 > OutputLimit]
<1>1. /\ UNCHANGED <<command, stopping, child, heir, written, waiter, verdict, loop, inHand, handled, told, lines>>
      /\ reader[s].step = "reading" /\ written[s] > reader[s].taken
      /\ reader' = [reader EXCEPT ![s] = r]
  BY DEF ReaderTakes, OthersRest, CanRead
<1>2. CommandTypeOK /\ Concludes /\ reader[s].taken \in Nat /\ written[s] \in Nat
  BY LineCounts DEF CommandInv
<1>3. /\ r \in PipeReaders /\ r.taken = reader[s].taken + 1 /\ r.step # "ended"
      /\ r.kept = Smaller(reader[s].taken + 1, OutputLimit)
      /\ r.truncated = (reader[s].taken + 1 > OutputLimit)
      /\ Streaming => r.step = "sending"
  BY <1>2, CommandAssumption DEF PipeReaders, Smaller
<1> HIDE DEF r
<1>4. reader' \in [Streams -> PipeReaders] /\ reader'[s] = r /\ \A t \in Streams \ {s} : reader'[t] = reader[t]
  BY <1>1, <1>2, <1>3, ReaderChanged
<1>5. CommandTypeOK'
  <2>1. lines' \in Seq(Lines) /\ Len(lines') <= LineSlots
    BY <1>1, <1>2 DEF CommandTypeOK
  <2> QED
    BY <1>1, <1>2, <1>4, <2>1, ReaderTypes
<1>6. Concludes'
  BY <1>1, <1>2, <1>3, <1>4, ReaderConcludes
<1>7. ASSUME NEW t \in Streams PROVE Keeps(t)' /\ Delivered(t)' /\ (Streaming' => InChannel(t)')
  <2>1. Keeps(t) /\ Delivered(t) /\ (Streaming => InChannel(t))
    BY DEF CommandInv
  <2>2. Delivered(t)'
    BY <1>1, <2>1, DeliveredKept
  <2>3. Keeps(t)'
    <3>1. CASE t = s
      <4>1. reader'[s].truncated <=> reader'[s].taken > OutputLimit
        BY <1>3, <1>4
      <4> QED
        BY <1>1, <1>2, <1>3, <1>4, <3>1, <4>1 DEF Keeps
    <3>2. CASE t # s
      BY <1>1, <1>4, <2>1, <3>2 DEF Keeps
    <3> QED
      BY <3>1, <3>2
  <2>4. Streaming => LinesSent(t)' = LinesSent(t)
    BY <1>1, <1>2, <1>3, <1>4 DEF LinesSent
  <2>5. Streaming' => InChannel(t)'
    BY <1>1, <2>1, <2>4, ChannelKept DEF Streaming
  <2> QED
    BY <2>2, <2>3, <2>5
<1> QED
  BY <1>5, <1>6, <1>7 DEF CommandInv

LEMMA SendsKeepsInv ==
    ASSUME CommandInv, NEW s \in Streams, ReaderSends(s)
    PROVE  CommandInv'
<1> DEFINE e == [stream |-> s, n |-> reader[s].taken]
           k == Len(lines) + 1
<1>1. /\ UNCHANGED <<command, stopping, child, heir, written, waiter, verdict, loop, inHand, handled, told>>
      /\ reader[s].step = "sending" /\ lines' = Append(lines, e) /\ Len(lines) < LineSlots
      /\ reader' = [reader EXCEPT ![s].step = "reading"]
  BY DEF ReaderSends, OthersRest
<1>2. CommandTypeOK /\ Concludes /\ reader[s].taken \in Nat
  BY LineCounts DEF CommandInv
<1>3. e \in Lines /\ e.stream = s /\ e.n = reader[s].taken
  BY <1>2 DEF Lines
<1> HIDE DEF e
<1>4. /\ reader' \in [Streams -> PipeReaders] /\ \A t \in Streams \ {s} : reader'[t] = reader[t]
      /\ reader'[s].step = "reading" /\ reader'[s].taken = reader[s].taken
      /\ reader'[s].kept = reader[s].kept /\ reader'[s].truncated = reader[s].truncated
  BY <1>1, <1>2, StepChanged
<1>5. /\ lines' \in Seq(Lines) /\ Len(lines) \in Nat
      /\ DOMAIN lines = 1..Len(lines) /\ DOMAIN lines' = 1..k
      /\ \A i \in 1..Len(lines) : lines'[i] = lines[i]
      /\ lines'[k] = e
      /\ Len(lines') = k
  BY <1>1, <1>2, <1>3, ChannelAppended DEF CommandTypeOK
<1>6. CommandTypeOK'
  <2>1. Len(lines') <= LineSlots
    BY <1>1, <1>5, CommandSizes
  <2>2. lines' \in Seq(Lines) /\ reader' \in [Streams -> PipeReaders]
    BY <1>4, <1>5
  <2>3. UNCHANGED <<command, stopping, child, heir, written, waiter, verdict, loop, inHand, handled, told>>
    BY <1>1
  <2> QED
    BY <1>2, <2>1, <2>2, <2>3, ReaderTypes
<1>7. Concludes'
  BY <1>1, <1>2, <1>4, ReaderConcludes
<1>8. ASSUME NEW t \in Streams PROVE Keeps(t)' /\ Delivered(t)' /\ (Streaming' => InChannel(t)')
  <2>1. Keeps(t) /\ Delivered(t) /\ (Streaming => InChannel(t))
    BY DEF CommandInv
  <2>2. Delivered(t)'
    BY <1>1, <2>1, DeliveredKept
  <2>3. Keeps(t)'
    <3>1. /\ reader'[t].taken = reader[t].taken /\ reader'[t].kept = reader[t].kept
          /\ reader'[t].truncated = reader[t].truncated
          /\ reader'[t].step = "ended" => reader[t].step = "ended"
      BY <1>1, <1>4
    <3> QED
      BY <1>1, <2>1, <3>1 DEF Keeps
  <2>4. ASSUME Streaming PROVE InChannel(t)'
    <3>1. /\ LinesTaken(t) \in Nat /\ LinesSent(t) \in Int /\ LinesTaken(t)' = LinesTaken(t) /\ InChannel(t)
      BY <1>1, <1>2, <2>1, <2>4, LineCounts DEF LinesTaken
    <3>2. CASE t # s
      <4>1. LinesSent(t)' = LinesSent(t)
        BY <1>4, <3>2 DEF LinesSent
      <4>2. \A n \in (LinesTaken(t) + 1)..LinesSent(t) : \E i \in DOMAIN lines' : lines'[i].stream = t /\ lines'[i].n = n
        BY <1>5, <3>1 DEF InChannel
      <4>3. \A i \in DOMAIN lines' : lines'[i].stream = t => i \in DOMAIN lines /\ lines'[i] = lines[i]
        BY <1>3, <1>5, <3>2
      <4>4. \A i \in DOMAIN lines' : lines'[i].stream = t => lines'[i].n \in (LinesTaken(t) + 1)..LinesSent(t)
        BY <3>1, <4>3 DEF InChannel
      <4>5. \A i, j \in DOMAIN lines' : i < j /\ lines'[i].stream = t /\ lines'[j].stream = t => lines'[i].n < lines'[j].n
        BY <3>1, <4>3 DEF InChannel
      <4>6. LinesTaken(t) <= LinesSent(t)
        BY <3>1 DEF InChannel
      <4> QED
        BY <3>1, <4>1, <4>2, <4>4, <4>5, <4>6 DEF InChannel
    <3>3. CASE t = s
      <4>1. LinesSent(t)' = LinesSent(t) + 1 /\ e.n = LinesSent(t) + 1
        BY <1>1, <1>2, <1>3, <1>4, <3>3 DEF LinesSent
      <4>2. LinesTaken(t)' <= LinesSent(t)'
        BY <3>1, <4>1 DEF InChannel
      <4>3. \A i \in 1..k : lines'[i].stream = t => lines'[i].n \in (LinesTaken(t) + 1)..(LinesSent(t) + 1)
        BY <1>5, <3>1, <4>1 DEF InChannel
      <4>4. ASSUME NEW n \in (LinesTaken(t) + 1)..(LinesSent(t) + 1)
            PROVE  \E i \in 1..k : lines'[i].stream = t /\ lines'[i].n = n
        <5>1. CASE n = LinesSent(t) + 1
          BY <1>3, <1>5, <3>3, <4>1, <5>1
        <5>2. CASE n # LinesSent(t) + 1
          <6>1. n \in (LinesTaken(t) + 1)..LinesSent(t)
            BY <3>1, <5>2
          <6>2. PICK i \in DOMAIN lines : lines[i].stream = t /\ lines[i].n = n
            BY <3>1, <6>1 DEF InChannel
          <6> QED
            BY <1>5, <6>2
        <5> QED
          BY <5>1, <5>2
      <4>5. ASSUME NEW i \in 1..k, NEW j \in 1..k, i < j, lines'[i].stream = t, lines'[j].stream = t
            PROVE  lines'[i].n < lines'[j].n
        <5>1. i \in 1..Len(lines) /\ lines'[i] = lines[i]
          BY <1>5, <4>5
        <5>2. CASE j = k
          <6>1. lines'[j].n = LinesSent(t) + 1
            BY <1>5, <4>1, <5>2
          <6>2. lines[i].n \in (LinesTaken(t) + 1)..LinesSent(t)
            BY <1>5, <3>1, <4>5, <5>1 DEF InChannel
          <6> QED
            BY <3>1, <5>1, <6>1, <6>2
        <5>3. CASE j # k
          <6>1. j \in DOMAIN lines /\ lines'[j] = lines[j] /\ i \in DOMAIN lines
            BY <1>5, <4>5, <5>1, <5>3
          <6>2. \A m, n \in DOMAIN lines : m < n /\ lines[m].stream = t /\ lines[n].stream = t => lines[m].n < lines[n].n
            BY <3>1 DEF InChannel
          <6> QED
            BY <4>5, <5>1, <6>1, <6>2
        <5> QED
          BY <5>2, <5>3
      <4> QED
        BY <1>5, <3>1, <4>1, <4>2, <4>3, <4>4, <4>5 DEF InChannel
    <3> QED
      BY <3>2, <3>3
  <2> QED
    BY <1>1, <2>2, <2>3, <2>4 DEF Streaming
<1> QED
  BY <1>6, <1>7, <1>8 DEF CommandInv

LEMMA EndsKeepsInv ==
    ASSUME CommandInv, NEW s \in Streams, ReaderEnds(s)
    PROVE  CommandInv'
<1>1. /\ UNCHANGED <<command, stopping, child, heir, written, waiter, verdict, loop, inHand, handled, told, lines>>
      /\ reader[s].step = "reading" /\ written[s] = reader[s].taken /\ child # "running" /\ ~heir
      /\ reader' = [reader EXCEPT ![s].step = "ended"]
  BY DEF ReaderEnds, OthersRest
<1>2. CommandTypeOK /\ Concludes
  BY DEF CommandInv
<1>3. /\ reader' \in [Streams -> PipeReaders] /\ \A t \in Streams \ {s} : reader'[t] = reader[t]
      /\ reader'[s].step = "ended" /\ reader'[s].taken = reader[s].taken
      /\ reader'[s].kept = reader[s].kept /\ reader'[s].truncated = reader[s].truncated
  BY <1>1, <1>2, StepChanged
<1>4. CommandTypeOK'
  <2>1. lines' \in Seq(Lines) /\ Len(lines') <= LineSlots
    BY <1>1, <1>2 DEF CommandTypeOK
  <2> QED
    BY <1>1, <1>2, <1>3, <2>1, ReaderTypes
<1>5. Concludes'
  BY <1>1, <1>2, <1>3, ReaderConcludes
<1>6. ASSUME NEW t \in Streams PROVE Keeps(t)' /\ Delivered(t)' /\ (Streaming' => InChannel(t)')
  <2>1. Keeps(t) /\ Delivered(t) /\ (Streaming => InChannel(t))
    BY DEF CommandInv
  <2>2. Delivered(t)' /\ Keeps(t)'
    BY <1>1, <1>3, <2>1, DeliveredKept DEF Keeps
  <2>3. LinesSent(t)' = LinesSent(t)
    BY <1>1, <1>3 DEF LinesSent
  <2> QED
    BY <1>1, <2>1, <2>2, <2>3, ChannelKept DEF Streaming
<1> QED
  BY <1>4, <1>5, <1>6 DEF CommandInv

-----------------------------------------------------------------------------
(* The loop *)

LEMMA LoopTakesKeepsInv ==
    ASSUME CommandInv, TakesLine
    PROVE  CommandInv'
<1> DEFINE e == Head(lines)
           k == Len(lines) - 1
<1>1. /\ UNCHANGED <<command, stopping, child, heir, written, reader, waiter, verdict, told, handled>>
      /\ loop = "selecting" /\ lines # <<>> /\ inHand' = e /\ lines' = Tail(lines) /\ loop' = "handling"
  BY DEF TakesLine, LoopOnly
<1>2. CommandTypeOK /\ Concludes /\ lines \in Seq(Lines)
  BY DEF CommandInv, CommandTypeOK
<1>3. /\ lines' \in Seq(Lines) /\ e \in Lines /\ e = lines[1]
      /\ Len(lines) \in Nat /\ Len(lines) > 0 /\ Len(lines') = k
      /\ DOMAIN lines = 1..(k + 1) /\ DOMAIN lines' = 1..k
      /\ \A i \in 1..k : lines'[i] = lines[i + 1]
  BY <1>1, <1>2, ChannelTail
<1>4. e.stream \in Streams /\ e # NoLine
  BY <1>3 DEF Lines, NoLine, Streams
<1> HIDE DEF e
<1>5. CommandTypeOK'
  <2>0. Len(lines) <= LineSlots
    BY <1>2 DEF CommandTypeOK
  <2>1. Len(lines') <= LineSlots
    BY <1>3, <2>0, CommandSizes
  <2> QED
    BY <1>1, <1>2, <1>3, <2>1 DEF CommandTypeOK
<1>6. Concludes'
  <2>1. waiter # "done" /\ told = "nothing"
    BY <1>1, <1>2 DEF Concludes
  <2> QED
    BY <1>1, <1>2, <1>4, <2>1 DEF Concludes, Streaming
<1>7. inHand = NoLine
  BY <1>1, <1>2 DEF Concludes
<1>8. ASSUME NEW s \in Streams PROVE inHand.stream # s
  BY <1>7, <1>8 DEF NoLine, Streams
<1>9. Streaming
  BY <1>1, <1>2 DEF Concludes
<1>10. ASSUME NEW s \in Streams PROVE Keeps(s)' /\ Delivered(s)' /\ InChannel(s)'
  <2>1. Keeps(s) /\ Delivered(s) /\ InChannel(s)
    BY <1>9 DEF CommandInv
  <2>2. Keeps(s)'
    BY <1>1, <2>1 DEF Keeps
  <2>3. LinesSent(s) \in Int /\ LinesTaken(s) = Len(handled[s]) /\ Len(handled[s]) \in Nat /\ LinesSent(s)' = LinesSent(s)
    BY <1>1, <1>2, <1>8, LineCounts DEF LinesTaken, LinesSent
  <2>4. CASE e.stream = s
    <3>1. LinesTaken(s)' = LinesTaken(s) + 1
      BY <1>1, <2>3, <2>4 DEF LinesTaken
    <3>2. e.n \in (LinesTaken(s) + 1)..LinesSent(s)
      BY <1>3, <2>1, <2>4 DEF InChannel
    <3>3. PICK i \in 1..(k + 1) : lines[i].stream = s /\ lines[i].n = LinesTaken(s) + 1
      <4>1. LinesTaken(s) + 1 \in (LinesTaken(s) + 1)..LinesSent(s)
        BY <2>3, <3>2
      <4> QED
        BY <1>3, <2>1, <4>1 DEF InChannel
    <3>4. i = 1
      <4>1. ASSUME i # 1 PROVE FALSE
        <5>1. 1 < i /\ lines[1].stream = s /\ 1 \in DOMAIN lines /\ i \in DOMAIN lines
          BY <1>3, <2>4, <4>1
        <5>2. lines[1].n < lines[i].n
          BY <2>1, <3>3, <5>1 DEF InChannel
        <5> QED
          BY <1>3, <2>3, <3>2, <3>3, <5>2
      <4> QED
        BY <4>1
    <3>5. e.n = LinesTaken(s) + 1
      BY <1>3, <3>3, <3>4
    <3>6. Delivered(s)'
      BY <1>1, <2>1, <2>3, <3>5 DEF Delivered
    <3>7. \A j \in 1..k : lines'[j].stream = s => lines'[j].n \in (LinesTaken(s) + 2)..LinesSent(s)
      <4> SUFFICES ASSUME NEW j \in 1..k, lines'[j].stream = s
                   PROVE  lines'[j].n \in (LinesTaken(s) + 2)..LinesSent(s)
        OBVIOUS
      <4>1. lines'[j] = lines[j + 1] /\ j + 1 \in DOMAIN lines /\ 1 \in DOMAIN lines /\ 1 < j + 1
        BY <1>3
      <4>2. lines[1].n < lines[j + 1].n /\ lines[j + 1].n \in (LinesTaken(s) + 1)..LinesSent(s)
        BY <1>3, <2>1, <2>4, <4>1 DEF InChannel
      <4> QED
        BY <1>3, <2>3, <3>5, <4>1, <4>2
    <3>8. ASSUME NEW n \in (LinesTaken(s) + 2)..LinesSent(s)
          PROVE  \E j \in 1..k : lines'[j].stream = s /\ lines'[j].n = n
      <4>1. n \in (LinesTaken(s) + 1)..LinesSent(s) /\ n # LinesTaken(s) + 1
        BY <2>3
      <4>2. PICK j \in DOMAIN lines : lines[j].stream = s /\ lines[j].n = n
        BY <2>1, <4>1 DEF InChannel
      <4>3. j # 1
        BY <1>3, <3>5, <4>1, <4>2
      <4>4. j - 1 \in 1..k /\ lines'[j - 1] = lines[j]
        BY <1>3, <4>3
      <4> QED
        BY <4>2, <4>4
    <3>9. ASSUME NEW i1 \in 1..k, NEW j1 \in 1..k, i1 < j1, lines'[i1].stream = s, lines'[j1].stream = s
          PROVE  lines'[i1].n < lines'[j1].n
      <4>1. /\ lines'[i1] = lines[i1 + 1] /\ lines'[j1] = lines[j1 + 1]
            /\ i1 + 1 \in DOMAIN lines /\ j1 + 1 \in DOMAIN lines /\ i1 + 1 < j1 + 1
        BY <1>3, <3>9
      <4> QED
        BY <2>1, <3>9, <4>1 DEF InChannel
    <3>10. LinesTaken(s)' <= LinesSent(s)' /\ LinesTaken(s)' + 1 = LinesTaken(s) + 2
      BY <2>3, <3>1, <3>2
    <3>11. InChannel(s)'
      BY <1>3, <2>3, <3>7, <3>8, <3>9, <3>10 DEF InChannel
    <3> QED
      BY <2>2, <3>6, <3>11
  <2>5. CASE e.stream # s
    <3>1. LinesTaken(s)' = LinesTaken(s) /\ Delivered(s)'
      BY <1>1, <2>1, <2>3, <2>5 DEF LinesTaken, Delivered
    <3>2. \A j \in 1..k : lines'[j].stream = s => lines'[j].n \in (LinesTaken(s) + 1)..LinesSent(s)
      <4> SUFFICES ASSUME NEW j \in 1..k, lines'[j].stream = s
                   PROVE  lines'[j].n \in (LinesTaken(s) + 1)..LinesSent(s)
        OBVIOUS
      <4>1. lines'[j] = lines[j + 1] /\ j + 1 \in DOMAIN lines
        BY <1>3
      <4> QED
        BY <2>1, <4>1 DEF InChannel
    <3>3. ASSUME NEW n \in (LinesTaken(s) + 1)..LinesSent(s)
          PROVE  \E j \in 1..k : lines'[j].stream = s /\ lines'[j].n = n
      <4>1. PICK j \in DOMAIN lines : lines[j].stream = s /\ lines[j].n = n
        BY <2>1, <3>3 DEF InChannel
      <4>2. j # 1
        BY <1>3, <2>5, <4>1
      <4>3. j - 1 \in 1..k /\ lines'[j - 1] = lines[j]
        BY <1>3, <4>2
      <4> QED
        BY <4>1, <4>3
    <3>4. ASSUME NEW i1 \in 1..k, NEW j1 \in 1..k, i1 < j1, lines'[i1].stream = s, lines'[j1].stream = s
          PROVE  lines'[i1].n < lines'[j1].n
      <4>1. /\ lines'[i1] = lines[i1 + 1] /\ lines'[j1] = lines[j1 + 1]
            /\ i1 + 1 \in DOMAIN lines /\ j1 + 1 \in DOMAIN lines /\ i1 + 1 < j1 + 1
        BY <1>3, <3>4
      <4> QED
        BY <2>1, <3>4, <4>1 DEF InChannel
    <3>5. InChannel(s)'
      BY <1>3, <2>1, <2>3, <3>1, <3>2, <3>3, <3>4 DEF InChannel
    <3> QED
      BY <2>2, <3>1, <3>5
  <2> QED
    BY <2>4, <2>5
<1> QED
  BY <1>5, <1>6, <1>10 DEF CommandInv

LEMMA LoopHandlesKeepsInv ==
    ASSUME CommandInv, HandlesLine
    PROVE  CommandInv'
<1> DEFINE s0 == inHand.stream
<1>1. /\ UNCHANGED <<command, stopping, child, heir, written, reader, waiter, verdict, told, lines>>
      /\ loop = "handling" /\ loop' = "selecting" /\ inHand' = NoLine
      /\ handled' = [handled EXCEPT ![s0] = Append(@, inHand.n)]
  BY DEF HandlesLine, LoopOnly
<1>2. CommandTypeOK /\ Concludes /\ inHand \in Lines
  BY <1>1 DEF CommandInv, CommandTypeOK, Concludes
<1>3. s0 \in Streams /\ inHand.n \in Nat
  BY <1>2 DEF Lines
<1>4. handled \in [Streams -> Seq(Nat)]
  BY <1>2 DEF CommandTypeOK
<1>5. /\ Append(handled[s0], inHand.n) \in Seq(Nat)
      /\ Len(handled[s0]) \in Nat /\ Len(Append(handled[s0], inHand.n)) = Len(handled[s0]) + 1
      /\ DOMAIN handled[s0] = 1..Len(handled[s0])
      /\ DOMAIN Append(handled[s0], inHand.n) = 1..(Len(handled[s0]) + 1)
      /\ \A i \in 1..Len(handled[s0]) : Append(handled[s0], inHand.n)[i] = handled[s0][i]
      /\ Append(handled[s0], inHand.n)[Len(handled[s0]) + 1] = inHand.n
  BY <1>3, <1>4, NumbersAppended
<1> HIDE DEF s0
<1>6. /\ handled' \in [Streams -> Seq(Nat)] /\ handled'[s0] = Append(handled[s0], inHand.n)
      /\ \A s \in Streams \ {s0} : handled'[s] = handled[s]
  BY <1>1, <1>3, <1>4, <1>5
<1>7. CommandTypeOK'
  BY <1>1, <1>2, <1>6 DEF CommandTypeOK
<1>8. Concludes'
  <2>1. waiter # "done" /\ told = "nothing"
    BY <1>1, <1>2 DEF Concludes
  <2> QED
    BY <1>1, <1>2, <2>1 DEF Concludes, Streaming
<1>9. ASSUME NEW s \in Streams PROVE Keeps(s)' /\ Delivered(s)' /\ (Streaming' => InChannel(s)')
  <2>1. Keeps(s) /\ Delivered(s) /\ (Streaming => InChannel(s)) /\ inHand'.stream # s
    BY <1>1 DEF CommandInv, NoLine, Streams
  <2>2. Keeps(s)'
    BY <1>1, <2>1 DEF Keeps
  <2>3. LinesTaken(s)' = LinesTaken(s)
    <3>1. CASE s = s0
      BY <1>5, <1>6, <2>1, <3>1 DEF LinesTaken, s0
    <3>2. CASE s # s0
      BY <1>6, <2>1, <3>2 DEF LinesTaken, s0
    <3> QED
      BY <3>1, <3>2
  <2>4. Delivered(s)'
    <3>1. CASE s = s0
      <4>1. inHand.n = Len(handled[s]) + 1
        BY <2>1, <3>1 DEF Delivered, s0
      <4>2. handled'[s] = Append(handled[s], inHand.n)
        BY <1>6, <3>1
      <4>3. \A i \in 1..Len(handled[s]) : handled[s][i] = i
        BY <1>5, <2>1, <3>1 DEF Delivered
      <4>4. \A i \in DOMAIN handled'[s] : handled'[s][i] = i
        <5> SUFFICES ASSUME NEW i \in 1..(Len(handled[s]) + 1) PROVE handled'[s][i] = i
          BY <1>5, <3>1, <4>2
        <5>1. CASE i = Len(handled[s]) + 1
          BY <1>5, <3>1, <4>1, <4>2, <5>1
        <5>2. CASE i # Len(handled[s]) + 1
          BY <1>5, <3>1, <4>2, <4>3, <5>2
        <5> QED
          BY <5>1, <5>2
      <4> QED
        BY <2>1, <4>4 DEF Delivered
    <3>2. CASE s # s0
      BY <1>6, <2>1, <3>2 DEF Delivered
    <3> QED
      BY <3>1, <3>2
  <2>5. Streaming => InChannel(s)'
    BY <1>1, <2>1, <2>3 DEF InChannel, LinesSent
  <2> QED
    BY <1>1, <2>2, <2>4, <2>5 DEF Streaming
<1> QED
  BY <1>7, <1>8, <1>9 DEF CommandInv

LEMMA SendersGoneKeepsInv ==
    ASSUME CommandInv, SendersGone
    PROVE  CommandInv'
<1>1. /\ UNCHANGED <<command, stopping, child, heir, written, reader, waiter, verdict, told, lines, inHand, handled>>
      /\ loop = "selecting" /\ loop' = "awaiting"
  BY DEF SendersGone, LoopOnly
<1>2. CommandTypeOK' /\ Concludes'
  BY <1>1 DEF CommandInv, CommandTypeOK, Concludes
<1>3. ASSUME NEW s \in Streams PROVE Keeps(s)' /\ Delivered(s)' /\ (Streaming' => InChannel(s)')
  BY <1>1, ChannelKept, DeliveredKept DEF CommandInv, Streaming, LinesSent, Keeps
<1> QED
  BY <1>2, <1>3 DEF CommandInv

LEMMA CommandInvNext ==
    ASSUME CommandInv, [CommandNext]_commandVars
    PROVE  CommandInv'
<1>1. CASE ChildWorks
  BY <1>1, ChildKeepsInv
<1>2. CASE \E s \in Streams : PipeReaderWorks(s)
  <2>1. PICK s \in Streams : PipeReaderWorks(s)
    BY <1>2
  <2> QED
    BY <2>1, TakesKeepsInv, SendsKeepsInv, EndsKeepsInv DEF PipeReaderWorks
<1>3. CASE WaiterWorks \/ CancelCommand
  BY <1>3, WaiterKeepsInv
<1>4. CASE LoopWorks
  BY <1>4, LoopTakesKeepsInv, LoopHandlesKeepsInv, SendersGoneKeepsInv DEF LoopWorks
<1>5. CASE UNCHANGED commandVars
  <2>0. CommandTypeOK /\ Concludes /\ LineSlots \in Nat
    BY CommandSizes DEF CommandInv
  <2>1. CommandTypeOK'
    <3>1. reader' \in [Streams -> PipeReaders] /\ lines' \in Seq(Lines) /\ Len(lines') <= LineSlots
      BY <1>5, <2>0 DEF commandVars, CommandTypeOK
    <3>2. UNCHANGED <<command, stopping, child, heir, written, waiter, verdict, loop, inHand, handled, told>>
      BY <1>5 DEF commandVars
    <3> QED
      BY <2>0, <3>1, <3>2, ReaderTypes
  <2>3. Concludes'
    BY <1>5, <2>0 DEF commandVars, Concludes, Streaming, ReadersDone, EndToTell
  <2>2. ASSUME NEW s \in Streams PROVE Keeps(s)' /\ Delivered(s)' /\ (Streaming' => InChannel(s)')
    BY <1>5, ChannelKept, DeliveredKept DEF commandVars, CommandInv, Streaming, LinesSent, Keeps
  <2> QED
    BY <2>1, <2>2, <2>3 DEF CommandInv
<1> QED
  BY <1>1, <1>2, <1>3, <1>4, <1>5 DEF CommandNext

\* A channel that holds the lines from one number to another holds as many.
LEMMA LinesCounted ==
    ASSUME CommandTypeOK, NEW s \in Streams, InChannel(s)
    PROVE  Cardinality({i \in DOMAIN lines : lines[i].stream = s}) = LinesSent(s) - LinesTaken(s)
<1> DEFINE S == {i \in DOMAIN lines : lines[i].stream = s}
           T == (LinesTaken(s) + 1)..LinesSent(s)
           f == [n \in T |-> CHOOSE i \in S : lines[i].n = n]
<1>1. LinesTaken(s) \in Nat /\ LinesSent(s) \in Int /\ LinesTaken(s) <= LinesSent(s)
  <2>1. LinesTaken(s) <= LinesSent(s)
    BY DEF InChannel
  <2> QED
    BY <2>1, LineCounts
<1>2. lines \in Seq(Lines) /\ DOMAIN lines = 1..Len(lines) /\ Len(lines) \in Nat
  <2>1. lines \in Seq(Lines)
    BY DEF CommandTypeOK
  <2> QED
    BY <2>1
<1>3. \A n \in T : \E i \in S : lines[i].n = n
  BY DEF InChannel
<1>4. \A n \in T : f[n] \in S /\ lines[f[n]].n = n
  BY <1>3
<1>5. ASSUME NEW i \in S PROVE lines[i].n \in T /\ f[lines[i].n] = i
  <2>1. lines[i].n \in T
    BY DEF InChannel
  <2>2. f[lines[i].n] \in S /\ lines[f[lines[i].n]].n = lines[i].n
    BY <1>4, <2>1
  <2>3. PICK j \in S : j = f[lines[i].n]
    BY <2>2
  <2>4. lines[j].n = lines[i].n
    BY <2>2, <2>3
  <2>5. i \in 1..Len(lines) /\ j \in 1..Len(lines) /\ lines[i].n \in Int
    BY <1>2, <2>1
  <2>6. ~(i < j) /\ ~(j < i)
    BY <2>4, <2>5 DEF InChannel
  <2> QED
    BY <2>1, <2>3, <2>5, <2>6
<1>6. f \in [T -> S]
  BY <1>4
<1> HIDE DEF f
<1>7. \A a, b \in T : f[a] = f[b] => a = b
  BY <1>4
<1>8. \A i \in S : \E n \in T : f[n] = i
  BY <1>5
<1>9. f \in Bijection(T, S)
  BY <1>6, <1>7, <1>8 DEF Bijection, Injection, Surjection, IsInjective
<1>10. IsFiniteSet(T) /\ Cardinality(T) = LinesSent(s) - LinesTaken(s)
  <2>1. \A a, b \in Int : IsFiniteSet(a..b) /\ Cardinality(a..b) = IF a > b THEN 0 ELSE b - a + 1
    BY FS_Interval
  <2>2. LinesTaken(s) + 1 \in Int /\ LinesSent(s) \in Int
    BY <1>1
  <2>3. IsFiniteSet(T) /\ Cardinality(T) = IF LinesTaken(s) + 1 > LinesSent(s) THEN 0 ELSE LinesSent(s) - (LinesTaken(s) + 1) + 1
    BY <2>1, <2>2
  <2> HIDE DEF T
  <2> QED
    BY <1>1, <2>3
<1> HIDE DEF S, T
<1>11. ExistsBijection(T, S)
  BY <1>9 DEF ExistsBijection
<1>12. Cardinality(S) = Cardinality(T)
  BY <1>10, <1>11, FS_Bijection
<1> QED
  BY <1>10, <1>12 DEF S

LEMMA CommandInvImplies ==
    ASSUME CommandInv PROVE OutputIsKept
<1> SUFFICES ASSUME loop = "ended"
             PROVE  /\ child # "running"
                    /\ \A s \in Streams :
                           /\ reader[s].kept = Smaller(written[s], OutputLimit)
                           /\ reader[s].truncated <=> written[s] > OutputLimit
                           /\ handled[s] = [i \in DOMAIN handled[s] |-> i]
                           /\ Streaming => Len(handled[s]) + Cardinality({i \in DOMAIN lines : lines[i].stream = s}) = written[s]
                    /\ verdict = "exited" /\ command.code = 0 /\ told = "failed" => command.kind = "netcheck" /\ handled["out"] = <<>>
                    /\ told = "cancelled" => stopping
  BY DEF OutputIsKept
<1>1. CommandTypeOK /\ Concludes
  BY DEF CommandInv
<1>2. waiter = "done" /\ inHand = NoLine /\ ReadersDone /\ told = EndToTell
  BY <1>1 DEF Concludes
<1>3. child # "running"
  BY <1>1, <1>2 DEF Concludes
<1>4. ASSUME NEW s \in Streams
      PROVE  /\ reader[s].kept = Smaller(written[s], OutputLimit)
             /\ reader[s].truncated <=> written[s] > OutputLimit
             /\ handled[s] = [i \in DOMAIN handled[s] |-> i]
             /\ Streaming => Len(handled[s]) + Cardinality({i \in DOMAIN lines : lines[i].stream = s}) = written[s]
  <2>1. Keeps(s) /\ Delivered(s) /\ (Streaming => InChannel(s)) /\ reader[s].step = "ended"
    BY <1>2 DEF CommandInv, ReadersDone
  <2>2. reader[s].taken = written[s]
    BY <2>1 DEF Keeps
  <2>3. handled[s] \in Seq(Nat) /\ Len(handled[s]) \in Nat /\ written[s] \in Nat
    BY <1>1, LineCounts DEF CommandTypeOK
  <2>4. handled[s] = [i \in DOMAIN handled[s] |-> i]
    BY <2>1, <2>3 DEF Delivered
  <2>5. LinesTaken(s) = Len(handled[s]) /\ LinesSent(s) = written[s]
    BY <1>2, <2>1, <2>2 DEF LinesTaken, LinesSent, NoLine, Streams
  <2>6. Streaming => Cardinality({i \in DOMAIN lines : lines[i].stream = s}) = LinesSent(s) - LinesTaken(s)
    BY <1>1, <2>1, LinesCounted
  <2>7. Streaming => Len(handled[s]) + Cardinality({i \in DOMAIN lines : lines[i].stream = s}) = written[s]
    BY <2>3, <2>5, <2>6
  <2> QED
    BY <2>1, <2>2, <2>4, <2>7 DEF Keeps
<1>5. verdict = "exited" /\ command.code = 0 /\ told = "failed" => command.kind = "netcheck" /\ handled["out"] = <<>>
  BY <1>2 DEF EndToTell
<1>6. told = "cancelled" => stopping
  BY <1>1, <1>2 DEF EndToTell, Concludes
<1> QED
  BY <1>3, <1>4, <1>5, <1>6

\* A command and its output are typed, for any amount of output and any limits.
THEOREM CommandTypeCorrect == CommandSpec => []CommandTypeOK
<1>1. CommandInit => CommandInv
  BY CommandInvInit
<1>2. CommandInv /\ [CommandNext]_commandVars => CommandInv'
  BY CommandInvNext
<1>3. CommandInv => CommandTypeOK
  BY DEF CommandInv
<1> QED
  BY <1>1, <1>2, <1>3, PTL DEF CommandSpec

\* What was kept of the output of a command that has ended is all of it up to
\* the limit, and the lines handled are the first of each stream, in order, but
\* for those still in the channel, whatever the sizes of pipe, channel and limit
\* and however the child, the readers, the waiter and the loop interleave.
THEOREM NoLineIsLost == CommandSpec => []OutputIsKept
<1>1. CommandInit => CommandInv
  BY CommandInvInit
<1>2. CommandInv /\ [CommandNext]_commandVars => CommandInv'
  BY CommandInvNext
<1>3. CommandInv => OutputIsKept
  BY CommandInvImplies
<1> QED
  BY <1>1, <1>2, <1>3, PTL DEF CommandSpec

-----------------------------------------------------------------------------
(* Operator requests: the inductive invariant *)

IsList(s) == Len(s) \in Nat /\ s = [i \in 1..Len(s) |-> s[i]]

\* A request made of a form, with what the user touched there: what was not
\* touched is asked for as it was shown, and no field is asked for that the
\* daemon does not report.
Asked(q, form, touched) ==
    /\ DOMAIN q.set \subseteq DOMAIN FieldValues /\ q.set = [f \in DOMAIN q.set |-> q.set[f]]
    /\ \A f \in DOMAIN q.set :
          /\ q.set[f] \in FieldValues[f] /\ (f = "offer" \/ Reported(f))
          /\ f \in touched \/ q.set[f] = form.values[f]
    /\ q.kind = "preferences" => DOMAIN q.set \subseteq Flags \cap touched
    /\ q.kind = "exit" => DOMAIN q.set = {"exit", "lan"} /\ (q.set.exit = "none" => q.set.lan = "no")
    /\ q.kind = "advertise" => DOMAIN q.set = {"routes", "offer", "connector", "port"}

\* A review shows the values that are asked for, none of them held by a policy.
ReviewFits(o) ==
    /\ o.phrase = TypedFor(o.request)
    /\ o.request.kind \in FormKinds =>
          /\ IsForm(o.form) /\ o.form.kind = o.request.kind /\ Asked(o.request, o.form, o.touched)
          /\ \A f \in DOMAIN o.request.set : o.lines[f][2] = o.request.set[f] /\ f \notin o.policy
OverlayFits(o) == IsForm(o) \/ (IsReview(o) /\ ReviewFits(o))

\* A mutation leaves the daemon as it was, or as the request makes it.
WorkFits(w) ==
    /\ ReviewFits(w.review)
    /\ w.after = w.before \/ w.after = Took(w.before, w.review.request)
    /\ w.step \in {"queued", "command"} => w.after = w.before /\ w.status = "none"
    /\ w.step \in {"queued", "command", "read"} => w.result = "none"
    /\ w.result = "Cancelled" => w.after = w.before /\ w.status = "none"
    /\ w.result = "Verified" => BornOut(w)

KnownFits(k) == IsKnown(k) /\ IsList(k.open) /\ \A i \in 1..Len(k.open) : OverlayFits(k.open[i])
Worked(w)    == w = NoWork \/ (IsWork(w) /\ WorkFits(w))
OperatorInv  == IsStock(stock) /\ node \in Nodes /\ KnownFits(known) /\ Worked(work)

-----------------------------------------------------------------------------
(* Operator requests: what is known of the daemon *)

LEMMA StillLess ==
    ASSUME IsStock(stock), NEW what \in {"asks", "foreign", "faults", "cancels", "reads"}, MayStill(what)
    PROVE  IsStock(stock)' /\ stock'.silent = stock.silent /\ stock'.typed = stock.typed
PROOF
  <1>1. PICK n \in Nat : n = stock[what] - 1
    BY DEF MayStill, IsStock
  <1>2. stock' = [stock EXCEPT ![what] = n]
    BY <1>1 DEF MayStill
  <1> QED BY <1>1, <1>2 DEF IsStock

\* What is in an overlay depends on the daemon's age only.
LEMMA OverlayStays ==
    ASSUME stock'.silent = stock.silent, NEW o
    PROVE  /\ IsForm(o)' <=> IsForm(o)
           /\ IsReview(o)' <=> IsReview(o)
           /\ OverlayFits(o)' <=> OverlayFits(o)
  BY DEF OverlayFits, ReviewFits, IsReview, IsForm, IsReading, Asked, Reported, FormValues, ExitForm, AdvertiseForm,
         PreferencesForm, TypedFor

LEMMA PreferenceFields ==
    ASSUME NEW p \in Preferences
    PROVE  /\ DOMAIN p = Fields
           /\ \A f \in Fields : p[f] \in FieldValues[f]
  BY DEF Preferences, Fields, Flags, FieldValues

LEMMA DecodedIsReading ==
    ASSUME NEW n \in NodesRead
    PROVE  IsReading(Decoded(n))
PROOF
  <1>1. PrefsOf(n) \in Preferences /\ n.peers \subseteq Peers
    BY DEF NodesRead, NodesIn, PrefsOf
  <1>2. PICK p \in Preferences : p = PrefsOf(n)
    BY <1>1
  <1>3. p.exit \in {"none", "auto:any"} \cup Peers
    BY DEF Preferences, FieldValues
  <1>4. Resolved(n) \in Peers \cup {NoDevice}
    BY <1>1 DEF Resolved
  <1>5. PICK id \in Peers \cup {NoDevice} : id = ExitId(n)
    BY <1>2, <1>3, <1>4 DEF ExitId
  <1>6. p.exit # "auto:any" => id = IF p.exit = "none" THEN NoDevice ELSE p.exit
    BY <1>2, <1>5 DEF ExitId
  <1>7. PICK r : r = Decoded(n)
    OBVIOUS
  <1>8. r = [f \in Fields \cup {"id"} |-> IF f = "id" THEN id ELSE IF Reported(f) THEN p[f] ELSE "unknown"]
    BY <1>2, <1>5, <1>7 DEF Decoded
  <1>9. DOMAIN r = Fields \cup {"id"} /\ r.id = id
    BY <1>8
  <1>10. \A f \in Fields : r[f] = IF Reported(f) THEN p[f] ELSE "unknown"
    BY <1>8 DEF Fields, Flags
  <1>11. Reported("exit") => r.exit = p.exit
    BY <1>10 DEF Fields
  <1> QED BY <1>6, <1>7, <1>9, <1>10, <1>11, PreferenceFields DEF IsReading

-----------------------------------------------------------------------------
(* Operator requests: what the daemon makes of a command *)

\* Flags a command may give.
Flagged(flags) == DOMAIN flags \subseteq DOMAIN FieldValues /\ \A f \in DOMAIN flags : flags[f] \in FieldValues[f]

\* What preferences become of which only the flags were given.
Becomes(p, flags, held, r) ==
    /\ \A f \in Fields : f # "routes" => r[f] = IF f \notin held /\ f \in DOMAIN flags THEN flags[f] ELSE p[f]
    /\ r.routes = IF "routes" \in held THEN p.routes
                  ELSE (IF "routes" \in DOMAIN flags THEN flags.routes ELSE p.routes)
                       \cup IF "offer" \in DOMAIN flags /\ flags.offer = "yes" THEN {"default"} ELSE {}

LEMMA PreferredIs ==
    ASSUME NEW p \in Preferences, NEW flags, Flagged(flags), NEW held
    PROVE  /\ Preferred(p, flags, held) \in Preferences
           /\ Becomes(p, flags, held, Preferred(p, flags, held))
PROOF
  <1>1. PICK routes : routes = (IF "routes" \in DOMAIN flags THEN flags.routes ELSE p.routes)
                               \cup IF "offer" \in DOMAIN flags /\ flags.offer = "yes" THEN {"default"} ELSE {}
    OBVIOUS
  <1>2. p.routes \in SUBSET {"net", "default"} /\ ("routes" \in DOMAIN flags => flags.routes \in SUBSET {"net", "default"})
    BY DEF Preferences, FieldValues, Flagged
  <1>3. routes \in FieldValues.routes
    BY <1>1, <1>2 DEF FieldValues
  <1>4. PICK r : r = Preferred(p, flags, held)
    OBVIOUS
  <1>5. r = [f \in Fields |-> IF f \in held THEN p[f] ELSE IF f = "routes" THEN routes
                              ELSE IF f \in DOMAIN flags THEN flags[f] ELSE p[f]]
    BY <1>1, <1>4 DEF Preferred
  <1>6. DOMAIN r = Fields
    BY <1>5
  <1>7. \A f \in Fields : r[f] \in FieldValues[f]
    BY <1>3, <1>5, PreferenceFields DEF Flagged
  <1>8. r \in Preferences
    <2>1. /\ r.dns \in FieldValues.dns /\ r.name \in FieldValues.name /\ r.exit \in FieldValues.exit /\ r.lan \in FieldValues.lan
          /\ r.routes \in FieldValues.routes /\ r.connector \in FieldValues.connector /\ r.port \in FieldValues.port
      BY <1>7 DEF Fields, Flags
    <2>2. r = [dns |-> r.dns, name |-> r.name, exit |-> r.exit, lan |-> r.lan, routes |-> r.routes,
               connector |-> r.connector, port |-> r.port]
      BY <1>5 DEF Fields, Flags
    <2> QED BY <2>1, <2>2 DEF Preferences
  <1>9. \A f \in Fields : f # "routes" => r[f] = IF f \notin held /\ f \in DOMAIN flags THEN flags[f] ELSE p[f]
    BY <1>5
  <1>10. r.routes = IF "routes" \in held THEN p.routes ELSE routes
    BY <1>5 DEF Fields
  <1> QED BY <1>1, <1>4, <1>8, <1>9, <1>10 DEF Becomes

\* The flags of a request are what was asked for.
LEMMA FlagsAsked ==
    ASSUME NEW q, NEW form, NEW touched, q.kind \in FormKinds, Asked(q, form, touched)
    PROVE  /\ Flagged(q.set)
           /\ FlagsOf(q) = q.set
PROOF
  <1>1. Flagged(q.set)
    BY DEF Asked, Flagged
  <1>2. CASE q.kind = "exit"
    <2>1. PICK set : set = q.set
      OBVIOUS
    <2>2. /\ DOMAIN set = {"exit", "lan"} /\ (set.exit = "none" => set.lan = "no")
          /\ set = [f \in DOMAIN set |-> set[f]]
      BY <1>2, <2>1 DEF Asked
    <2>3. PICK flags : flags = [set EXCEPT !.lan = IF set.exit = "none" THEN "no" ELSE set.lan]
      OBVIOUS
    <2>4. flags = [set EXCEPT !.lan = set.lan]
      BY <2>2, <2>3
    <2>5. set \in [{"exit", "lan"} -> {set.exit, set.lan}]
      BY <2>2
    <2> QED BY <1>1, <1>2, <2>1, <2>3, <2>4, <2>5 DEF FlagsOf, ExitFlags
  <1>3. CASE q.kind # "exit"
    BY <1>1, <1>3 DEF FlagsOf
  <1> QED BY <1>2, <1>3

LEMMA NodeFields ==
    ASSUME NEW n \in NodesRead
    PROVE  /\ n.prefs \in [LocalAccounts \cup {NoAccount} -> Preferences] /\ n.peers \subseteq Peers
           /\ n.policy \subseteq Policies /\ n.accounts \subseteq LocalAccounts /\ n.active \in LocalAccounts \cup {NoAccount}
           /\ PrefsOf(n) \in Preferences
  BY DEF NodesRead, NodesIn, PrefsOf

LEMMA NodesAreRead ==
    ASSUME NEW n \in Nodes
    PROVE  n \in NodesRead /\ n.running \in {"yes", "no", "login"}
  BY DEF Nodes, NodesRead, NodesIn

\* A set command changes the preferences of the account it runs under.
LEMMA TookSet ==
    ASSUME NEW n \in Nodes, NEW q, NEW form, NEW touched, q.kind \in FormKinds, Asked(q, form, touched)
    PROVE  /\ Took(n, q) \in Nodes
           /\ Took(n, q).accounts = n.accounts /\ Took(n, q).running = n.running
           /\ \A a \in LocalAccounts \cup {NoAccount} : a # n.active => Took(n, q).prefs[a] = n.prefs[a]
           /\ Took(n, q).prefs[n.active] = Preferred(n.prefs[n.active], q.set, Managed(n.policy))
PROOF
  <1>1. n.active \in LocalAccounts \cup {NoAccount} /\ n.prefs[n.active] \in Preferences
    BY NodesAreRead, NodeFields
  <1>2. PICK p \in Preferences : p = Preferred(n.prefs[n.active], q.set, Managed(n.policy))
    BY <1>1, PreferredIs, FlagsAsked
  <1>3. Took(n, q) = [n EXCEPT !.prefs[n.active] = p]
    BY <1>2, FlagsAsked DEF Took, FormKinds
  <1>4. PICK prefs \in [LocalAccounts \cup {NoAccount} -> Preferences] : prefs = [n.prefs EXCEPT ![n.active] = p]
    BY <1>1, NodesAreRead, NodeFields
  <1>5. [n EXCEPT !.prefs[n.active] = p] = [n EXCEPT !.prefs = prefs]
    BY <1>4
  <1>6. /\ [n EXCEPT !.prefs = prefs] \in Nodes
        /\ [n EXCEPT !.prefs = prefs].accounts = n.accounts
        /\ [n EXCEPT !.prefs = prefs].running = n.running
        /\ [n EXCEPT !.prefs = prefs].prefs = prefs
    BY DEF Nodes, NodesIn
  <1>7. n.prefs \in [LocalAccounts \cup {NoAccount} -> Preferences]
    BY NodesAreRead, NodeFields
  <1> QED BY <1>1, <1>2, <1>3, <1>4, <1>5, <1>6, <1>7

\* Every other command leaves them alone.
LEMMA TookElse ==
    ASSUME NEW n \in Nodes, NEW q, q.kind \in OperatorKinds \ FormKinds
    PROVE  /\ Took(n, q) \in Nodes /\ Took(n, q).prefs = n.prefs
           /\ n.accounts \ Took(n, q).accounts \subseteq IF q.kind = "remove" THEN {q.account} ELSE {}
           /\ Took(n, q).running = "no" => n.running = "no" \/ q.kind = "disconnect"
PROOF
  <1>1. CASE q.kind = "connect"
    <2>1. PICK r \in {"yes", "login"} : r = IF n.running = "login" THEN n.running ELSE "yes"
      OBVIOUS
    <2>2. Took(n, q) = [n EXCEPT !.running = r]
      BY <1>1, <2>1 DEF Took, FormKinds
    <2> QED BY <1>1, <2>2 DEF Nodes, NodesIn
  <1>2. CASE q.kind = "disconnect"
    <2>1. PICK r \in {"no", "login"} : r = IF n.running = "login" THEN n.running ELSE "no"
      OBVIOUS
    <2>2. Took(n, q) = [n EXCEPT !.running = r]
      BY <1>2, <2>1 DEF Took, FormKinds
    <2> QED BY <1>2, <2>2 DEF Nodes, NodesIn
  <1>3. CASE q.kind = "switch"
    <2>1. Took(n, q) = IF q.account \in n.accounts THEN [n EXCEPT !.active = q.account] ELSE n
      BY <1>3 DEF Took, FormKinds
    <2>2. q.account \in n.accounts => q.account \in LocalAccounts
      BY NodesAreRead, NodeFields
    <2> QED BY <1>3, <2>1, <2>2 DEF Nodes, NodesIn
  <1>4. CASE q.kind = "remove"
    <2>1. PICK active \in LocalAccounts \cup {NoAccount} : active = IF n.active = q.account THEN NoAccount ELSE n.active
      BY NodesAreRead, NodeFields
    <2>2. PICK accounts \in SUBSET LocalAccounts : accounts = n.accounts \ {q.account}
      BY NodesAreRead, NodeFields
    <2>3. Took(n, q) = [n EXCEPT !.accounts = accounts, !.active = active]
      BY <1>4, <2>1, <2>2 DEF Took, FormKinds
    <2> QED BY <1>4, <2>2, <2>3 DEF Nodes, NodesIn
  <1>5. CASE q.kind \in {"reload", "login", "logout"}
    BY <1>5 DEF Took, FormKinds
  <1> QED BY <1>1, <1>2, <1>3, <1>4, <1>5 DEF OperatorKinds, FormKinds

-----------------------------------------------------------------------------
(* Operator requests: what a mutation did *)

LEMMA DidWhatReviewed ==
    ASSUME NEW w, IsWork(w), WorkFits(w)
    PROVE  ReachesOnlyReviewed(w)
PROOF
  <1>1. PICK q : q = w.review.request
    OBVIOUS
  <1>2. PICK n \in Nodes : n = w.before
    BY DEF IsWork
  <1>3. /\ q.kind \in OperatorKinds /\ w.review.phrase = TypedFor(q)
        /\ w.after = n \/ w.after = Took(n, q)
        /\ "set" \in DOMAIN q <=> q.kind \in FormKinds
    BY <1>1, <1>2 DEF IsWork, WorkFits, IsReview, ReviewFits
  <1>4. DOMAIN n.prefs = LocalAccounts \cup {NoAccount}
    BY NodesAreRead, NodeFields
  <1>5. CASE w.after = n
    BY <1>2, <1>5 DEF ReachesOnlyReviewed
  <1>6. CASE w.after = Took(n, q) /\ q.kind \in FormKinds
    <2>1. /\ Asked(q, w.review.form, w.review.touched)
          /\ \A f \in DOMAIN q.set : w.review.lines[f][2] = q.set[f]
      BY <1>1, <1>6 DEF WorkFits, ReviewFits
    <2>2. PICK p \in Preferences : p = n.prefs[n.active]
      BY NodesAreRead, NodeFields
    <2>3. PICK r : r = Preferred(p, q.set, Managed(n.policy))
      OBVIOUS
    <2>4. /\ w.after.accounts = n.accounts /\ w.after.running = n.running
          /\ \A a \in LocalAccounts \cup {NoAccount} : a # n.active => w.after.prefs[a] = n.prefs[a]
          /\ w.after.prefs[n.active] = r
      BY <1>6, <2>1, <2>2, <2>3, TookSet
    <2>5. /\ \A f \in Fields : f # "routes" => r[f] = IF f \notin Managed(n.policy) /\ f \in DOMAIN q.set THEN q.set[f] ELSE p[f]
          /\ r.routes = IF "routes" \in Managed(n.policy) THEN p.routes
                        ELSE (IF "routes" \in DOMAIN q.set THEN q.set.routes ELSE p.routes)
                             \cup IF "offer" \in DOMAIN q.set /\ q.set.offer = "yes" THEN {"default"} ELSE {}
      <3>1. Flagged(q.set)
        BY <2>1, <1>6, FlagsAsked
      <3>2. Becomes(p, q.set, Managed(n.policy), r)
        BY <2>2, <2>3, <3>1, PreferredIs
      <3> QED BY <3>2 DEF Becomes
    <2>6. "offer" \in DOMAIN q.set => "routes" \in DOMAIN q.set
      BY <2>1, <1>6 DEF Asked, FormKinds, Flags
    <2>7. ASSUME NEW a \in LocalAccounts \cup {NoAccount}, NEW f \in Fields, w.after.prefs[a][f] # n.prefs[a][f]
          PROVE  /\ a = n.active /\ f \in DOMAIN q.set
                 /\ IF f = "routes" THEN w.after.prefs[a][f] \ {"default"} = w.review.lines[f][2] \ {"default"}
                    ELSE w.after.prefs[a][f] = w.review.lines[f][2]
      <3>1. a = n.active /\ r[f] # p[f]
        BY <2>2, <2>4, <2>7
      <3>2. CASE f = "routes"
        <4>1. "routes" \in DOMAIN q.set
          BY <2>5, <2>6, <3>1, <3>2
        <4>2. r.routes \ {"default"} = q.set.routes \ {"default"}
          BY <2>5, <3>1, <3>2, <4>1
        <4> QED BY <2>1, <2>4, <3>1, <3>2, <4>1, <4>2
      <3>3. CASE f # "routes"
        BY <2>1, <2>4, <2>5, <3>1, <3>3
      <3> QED BY <3>2, <3>3
    <2> QED BY <1>1, <1>2, <1>3, <1>4, <1>6, <2>4, <2>7 DEF ReachesOnlyReviewed, InReview
  <1>7. CASE w.after = Took(n, q) /\ q.kind \notin FormKinds
    <2>1. /\ w.after.prefs = n.prefs
          /\ n.accounts \ w.after.accounts \subseteq IF q.kind = "remove" THEN {q.account} ELSE {}
          /\ w.after.running = "no" => n.running = "no" \/ q.kind = "disconnect"
      BY <1>3, <1>7, TookElse
    <2>2. q.kind = "remove" => w.review.phrase = q.account
      BY <1>3 DEF TypedFor
    <2>3. q.kind = "disconnect" => w.review.phrase = "DISCONNECT"
      BY <1>3 DEF TypedFor
    <2> QED BY <1>1, <1>2, <2>1, <2>2, <2>3 DEF ReachesOnlyReviewed
  <1> QED BY <1>3, <1>5, <1>6, <1>7

\* What the form shows of a field is what the daemon reported.
LEMMA ShownIs ==
    ASSUME NEW o, IsForm(o)
    PROVE  /\ o.kind = "exit" => /\ Reported("lan") => o.values.lan = o.shown.lan
                                 /\ Reported("exit") /\ o.shown.exit # "auto:any" => o.values.exit = o.shown.exit
           /\ o.kind = "advertise" =>
                 /\ Reported("routes") => /\ o.values.routes = o.shown.routes
                                          /\ o.values.offer = "yes" => "default" \in o.shown.routes
                 /\ Reported("connector") => o.values.connector = o.shown.connector
                 /\ Reported("port") => o.values.port = o.shown.port
PROOF
  <1>1. CASE o.kind = "exit"
    <2>1. o.values = ExitForm(o.shown)
      BY <1>1 DEF IsForm, FormValues
    <2>2. Reported("exit") /\ o.shown.exit # "auto:any" => o.shown.id = IF o.shown.exit = "none" THEN NoDevice ELSE o.shown.exit
      BY DEF IsForm, IsReading
    <2>3. Reported("exit") => o.shown.exit \in FieldValues.exit
      BY DEF IsForm, IsReading, Fields
    <2>4. PICK e, l : /\ e = IF o.shown.id = NoDevice THEN "none" ELSE o.shown.id
                      /\ l = IF Reported("lan") THEN o.shown.lan ELSE "no"
      OBVIOUS
    <2>5. PICK v : v = [exit |-> e, lan |-> l]
      OBVIOUS
    <2>6. v.exit = e /\ v.lan = l
      BY <2>5
    <2>7. o.values = v
      BY <2>1, <2>4, <2>5 DEF ExitForm
    <2>8. Reported("exit") => o.shown.exit # NoDevice
      BY <2>3, OperatorAssumption DEF FieldValues, NoDevice
    <2>9. Reported("exit") /\ o.shown.exit # "auto:any" => o.values.exit = o.shown.exit
      BY <2>2, <2>4, <2>8, <2>6, <2>7 DEF Reported
    <2> QED BY <1>1, <2>4, <2>9, <2>6, <2>7 DEF Reported
  <1>2. CASE o.kind = "advertise"
    <2>1. o.values = AdvertiseForm(o.shown)
      BY <1>2 DEF IsForm, FormValues
    <2>2. PICK r, f, c, p : /\ r = IF Reported("routes") THEN o.shown.routes ELSE {}
                            /\ f = IF Reported("routes") /\ Offers(o.shown) THEN "yes" ELSE "no"
                            /\ c = IF Reported("connector") THEN o.shown.connector ELSE "no"
                            /\ p = IF Reported("port") THEN o.shown.port ELSE "off"
      OBVIOUS
    <2>3. PICK v : v = [routes |-> r, offer |-> f, connector |-> c, risk |-> "no", port |-> p]
      OBVIOUS
    <2>4. v.routes = r /\ v.offer = f /\ v.connector = c /\ v.port = p
      BY <2>3
    <2>5. o.values = v
      BY <2>1, <2>2, <2>3 DEF AdvertiseForm
    <2> QED BY <1>2, <2>2, <2>4, <2>5 DEF Offers, Reported
  <1> QED BY <1>1, <1>2

LEMMA LeftTheRest ==
    ASSUME NEW w, IsWork(w), WorkFits(w)
    PROVE  LeavesTheRest(w)
PROOF
  <1>1. PICK q : q = w.review.request
    OBVIOUS
  <1>2. PICK n \in Nodes : n = w.before
    BY DEF IsWork
  <1>3. q.kind \in OperatorKinds /\ (w.after = n \/ w.after = Took(n, q))
    BY <1>1, <1>2 DEF IsWork, WorkFits, IsReview
  <1>4. CASE w.after = n
    BY <1>2, <1>4 DEF LeavesTheRest
  <1>5. CASE w.after = Took(n, q) /\ q.kind \notin FormKinds
    <2>1. w.after.prefs = n.prefs
      BY <1>3, <1>5, TookElse
    <2> QED BY <1>2, <2>1 DEF LeavesTheRest
  <1>6. CASE w.after = Took(n, q) /\ q.kind \in FormKinds
    <2>1. PICK form : form = w.review.form
      OBVIOUS
    <2>2. PICK touched : touched = w.review.touched
      OBVIOUS
    <2>3. IsForm(form) /\ form.kind = q.kind /\ Asked(q, form, touched)
      BY <1>1, <1>6, <2>1, <2>2 DEF WorkFits, ReviewFits
    <2>4. PICK p \in Preferences : p = n.prefs[n.active]
      BY NodesAreRead, NodeFields
    <2>5. PICK r : r = Preferred(p, q.set, Managed(n.policy))
      OBVIOUS
    <2>6. w.after.prefs[n.active] = r
      BY <1>6, <2>3, <2>4, <2>5, TookSet
    <2>7. /\ \A f \in Fields : f # "routes" => r[f] = IF f \notin Managed(n.policy) /\ f \in DOMAIN q.set THEN q.set[f] ELSE p[f]
          /\ r.routes = IF "routes" \in Managed(n.policy) THEN p.routes
                        ELSE (IF "routes" \in DOMAIN q.set THEN q.set.routes ELSE p.routes)
                             \cup IF "offer" \in DOMAIN q.set /\ q.set.offer = "yes" THEN {"default"} ELSE {}
      <3>1. Flagged(q.set)
        BY <2>3, <1>6, FlagsAsked
      <3>2. Becomes(p, q.set, Managed(n.policy), r)
        BY <2>4, <2>5, <3>1, PreferredIs
      <3> QED BY <3>2 DEF Becomes
    <2>8. ASSUME NEW f \in Fields \ touched, p[f] = form.shown[f], form.shown.exit # "auto:any",
                 f = "routes" => "offer" \notin touched
          PROVE  r[f] = p[f]
      <3>1. f \in DOMAIN q.set => Reported(f) /\ q.set[f] = form.values[f] /\ q.kind # "preferences"
        BY <2>3 DEF Asked, Fields, Flags
      <3>2. f \in DOMAIN q.set => f \in {"exit", "lan", "routes", "connector", "port"}
        BY <2>3, <3>1, <1>6 DEF Asked, FormKinds, Fields, Flags
      <3>3. CASE f # "routes"
        <4>1. f \in DOMAIN q.set => q.set[f] = form.shown[f]
          <5>1. f \in DOMAIN q.set /\ q.kind = "exit" => f \in {"exit", "lan"}
            BY <2>3 DEF Asked
          <5>2. f \in DOMAIN q.set /\ q.kind = "advertise" => f \in {"connector", "port"}
            BY <2>3, <3>2, <3>3 DEF Asked
          <5> QED BY <1>6, <2>3, <2>8, <3>1, <5>1, <5>2, ShownIs DEF FormKinds
        <4> QED BY <2>7, <2>8, <3>3, <4>1
      <3>4. CASE f = "routes"
        <4>1. CASE q.kind # "advertise"
          <5>1. "routes" \notin DOMAIN q.set /\ "offer" \notin DOMAIN q.set
            BY <1>6, <2>3, <4>1 DEF Asked, FormKinds, Flags
          <5> QED BY <2>7, <3>4, <5>1
        <4>2. CASE q.kind = "advertise"
          <5>1. "routes" \in DOMAIN q.set /\ "offer" \in DOMAIN q.set
            BY <2>3, <4>2 DEF Asked
          <5>2. q.set.offer = form.values.offer /\ q.set.routes = form.values.routes /\ Reported("routes")
            BY <2>3, <2>8, <3>4, <5>1 DEF Asked
          <5>3. q.set.routes = p.routes /\ (q.set.offer = "yes" => "default" \in p.routes)
            BY <2>3, <2>8, <3>4, <4>2, <5>2, ShownIs
          <5> QED BY <2>7, <3>4, <5>1, <5>3
        <4> QED BY <4>1, <4>2
      <3> QED BY <3>3, <3>4
    <2> QED BY <1>2, <2>1, <2>2, <2>4, <2>6, <2>8 DEF LeavesTheRest
  <1> QED BY <1>3, <1>4, <1>5, <1>6

\* What is found so when it is read back was so.
LEMMA VerifiedIsSo ==
    ASSUME NEW w, IsReview(w.review), ReviewFits(w.review), w.read \in NodesRead,
           Verify(w.read, w.review.request) = "yes"
    PROVE  BornOut(w)
PROOF
  <1>1. PICK q : q = w.review.request
    OBVIOUS
  <1>2. PICK n \in NodesRead : n = w.read
    OBVIOUS
  <1>3. PICK p \in Preferences : p = PrefsOf(n)
    BY NodeFields
  <1>4. PICK d : d = Decoded(n)
    OBVIOUS
  <1>5. IsReading(d)
    BY <1>4, DecodedIsReading
  <1>6. (\A f \in Fields : Reported(f) => d[f] = p[f]) /\ d.id = ExitId(n)
    BY <1>3, <1>4 DEF Decoded, Fields, Flags
  <1>7. q.kind \in OperatorKinds
    BY <1>1 DEF IsReview
  <1>8. CASE q.kind \notin FormKinds
    BY <1>1, <1>2, <1>7, <1>8 DEF BornOut, Verify, YesNo, OperatorKinds, FormKinds
  <1>9. CASE q.kind \in FormKinds
    <2>1. Asked(q, w.review.form, w.review.touched)
      BY <1>1, <1>9 DEF ReviewFits
    <2>2. PICK set : set = q.set
      OBVIOUS
    <2>3. \A f \in DOMAIN set : f = "offer" \/ Reported(f)
      BY <2>1, <2>2 DEF Asked
    <2>4. SUFFICES \A f \in DOMAIN set :
                       IF f = "exit" THEN IF set.exit \in {"none", "auto:any"} THEN p.exit = set.exit ELSE ExitId(n) = set.exit
                       ELSE IF f = "offer" THEN set.offer = "yes" <=> Offers(p)
                       ELSE p[f] = set[f]
      BY <1>1, <1>2, <1>3, <1>9, <2>2 DEF BornOut, FormKinds
    <2>5. CASE q.kind = "preferences"
      <3>1. DOMAIN set \subseteq {"dns", "name"}
        BY <2>1, <2>2, <2>5 DEF Asked, Flags
      <3>2. \A f \in DOMAIN set : d[f] = set[f]
        BY <1>1, <1>2, <1>4, <2>2, <2>5 DEF Verify, VerifyFlags, YesNo
      <3> QED BY <1>6, <2>3, <3>1, <3>2 DEF Fields, Flags
    <2>6. CASE q.kind = "exit"
      <3>1. DOMAIN set = {"exit", "lan"} /\ (set.exit = "none" => set.lan = "no") /\ FlagsOf(q) = set
        BY <1>9, <2>1, <2>2, <2>6, FlagsAsked DEF Asked
      <3>2. ExitFlags(set).lan = set.lan
        BY <2>2, <2>6, <3>1 DEF FlagsOf
      <3>3. VerifyExit(d, set) = "yes"
        BY <1>1, <1>2, <1>4, <2>2, <2>6 DEF Verify
      <3>4. /\ CASE set.exit = "none"     -> d.exit # "auto:any" /\ d.id = NoDevice
                 [] set.exit = "auto:any" -> d.exit = "auto:any"
                 [] OTHER                 -> d.id = set.exit
            /\ d.lan = set.lan /\ Reported("exit") /\ Reported("lan")
        BY <3>2, <3>3 DEF VerifyExit, YesNo
      <3>5. d.exit = p.exit /\ d.lan = p.lan /\ p.exit \in {"none", "auto:any"} \cup Peers
        BY <1>6, <3>4 DEF Fields, Preferences, FieldValues
      <3>6. set.exit = "none" => p.exit = "none"
        BY <1>5, <3>4, <3>5, OperatorAssumption DEF IsReading
      <3>7. set.exit \notin {"none", "auto:any"} => ExitId(n) = set.exit
        BY <1>6, <3>4
      <3> QED BY <3>1, <3>4, <3>5, <3>6, <3>7
    <2>7. CASE q.kind = "advertise"
      <3>1. DOMAIN set = {"routes", "offer", "connector", "port"}
        BY <2>1, <2>2, <2>7 DEF Asked
      <3>2. VerifyAdvertised(d, set) = "yes"
        BY <1>1, <1>2, <1>4, <2>2, <2>7 DEF Verify
      <3>3. d.routes = set.routes /\ (set.offer = "yes" <=> Offers(d)) /\ d.connector = set.connector /\ d.port = set.port
        BY <3>2 DEF VerifyAdvertised, YesNo
      <3>4. d.routes = p.routes /\ d.connector = p.connector /\ d.port = p.port
        BY <1>6, <2>3, <3>1 DEF Fields
      <3>5. Offers(d) <=> Offers(p)
        BY <3>4 DEF Offers
      <3> QED BY <3>1, <3>3, <3>4, <3>5
    <2> QED BY <1>9, <2>5, <2>6, <2>7 DEF FormKinds
  <1> QED BY <1>8, <1>9

-----------------------------------------------------------------------------
(* Operator requests: forms and reviews *)

LEMMA FormOpens ==
    ASSUME IsKnown(known), known.read, NEW kind \in FormKinds
    PROVE  IsForm(OperatorForm(known, kind))
PROOF
  <1>1. PICK locked \in SUBSET Flags : locked = IF kind = "preferences" THEN {f \in Flags : ~CanEdit(known, f)} ELSE {}
    OBVIOUS
  <1>2. PICK values : values = FormValues(kind, known.prefs)
    OBVIOUS
  <1>3. PICK p : p = known.prefs
    OBVIOUS
  <1>4. PICK o : o = [what |-> "form", kind |-> kind, values |-> values, locked |-> locked, shown |-> p]
    OBVIOUS
  <1>5. o = OperatorForm(known, kind)
    BY <1>1, <1>2, <1>3, <1>4 DEF OperatorForm
  <1>6. IsReading(p)
    BY <1>3 DEF IsKnown
  <1>7. /\ o.what = "form" /\ o.kind = kind /\ o.values = values /\ o.locked = locked /\ o.shown = p
        /\ DOMAIN o = {"what", "kind", "values", "locked", "shown"}
    BY <1>4
  <1>8. IsForm(o)
    BY <1>1, <1>2, <1>3, <1>6, <1>7 DEF IsForm
  <1> QED BY <1>5, <1>8

\* What a form other than that of the preferences holds can be asked for.
LEMMA HeldByForm ==
    ASSUME NEW o, IsForm(o)
    PROVE  /\ o.kind = "preferences" => o.values = [f \in Flags |-> "unchanged"]
           /\ o.kind = "exit" => DOMAIN o.values = {"exit", "lan"} /\ o.values.exit \in FieldValues.exit /\ o.values.lan \in FieldValues.lan
           /\ o.kind = "advertise" =>
                 /\ DOMAIN o.values = {"routes", "offer", "connector", "risk", "port"}
                 /\ o.values.routes \in FieldValues.routes /\ o.values.offer \in FieldValues.offer /\ o.values.risk \in FieldValues.risk
                 /\ o.values.connector \in FieldValues.connector /\ o.values.port \in FieldValues.port
PROOF
  <1>1. CASE o.kind = "preferences"
    BY <1>1 DEF IsForm, FormValues, PreferencesForm
  <1>2. CASE o.kind = "exit"
    <2>1. o.values = ExitForm(o.shown)
      BY <1>2 DEF IsForm, FormValues
    <2>2. PICK e \in FieldValues.exit : e = IF o.shown.id = NoDevice THEN "none" ELSE o.shown.id
      BY DEF IsForm, IsReading, FieldValues
    <2>3. PICK l \in FieldValues.lan : l = IF Reported("lan") THEN o.shown.lan ELSE "no"
      <3>1. Reported("lan") => o.shown.lan \in FieldValues.lan
        BY DEF IsForm, IsReading, Fields
      <3> QED BY <3>1 DEF FieldValues, Reported
    <2>4. PICK v : v = [exit |-> e, lan |-> l]
      OBVIOUS
    <2>5. v.exit = e /\ v.lan = l /\ DOMAIN v = {"exit", "lan"}
      BY <2>4
    <2>6. o.values = v
      BY <2>1, <2>2, <2>3, <2>4 DEF ExitForm
    <2> QED BY <1>2, <2>2, <2>3, <2>5, <2>6
  <1>3. CASE o.kind = "advertise"
    <2>1. o.values = AdvertiseForm(o.shown)
      BY <1>3 DEF IsForm, FormValues
    <2>2. /\ Reported("routes") => o.shown.routes \in FieldValues.routes
          /\ Reported("connector") => o.shown.connector \in FieldValues.connector
          /\ Reported("port") => o.shown.port \in FieldValues.port
      BY DEF IsForm, IsReading, Fields
    <2>3. PICK r \in FieldValues.routes : r = IF Reported("routes") THEN o.shown.routes ELSE {}
      BY <2>2 DEF FieldValues, Reported
    <2>4. PICK f \in FieldValues.offer : f = IF Reported("routes") /\ Offers(o.shown) THEN "yes" ELSE "no"
      BY DEF FieldValues
    <2>5. PICK c \in FieldValues.connector : c = IF Reported("connector") THEN o.shown.connector ELSE "no"
      BY <2>2 DEF FieldValues, Reported
    <2>6. PICK p \in FieldValues.port : p = IF Reported("port") THEN o.shown.port ELSE "off"
      BY <2>2 DEF FieldValues, Reported
    <2>7. PICK v : v = [routes |-> r, offer |-> f, connector |-> c, risk |-> "no", port |-> p]
      OBVIOUS
    <2>8. /\ v.routes = r /\ v.offer = f /\ v.connector = c /\ v.port = p /\ v.risk = "no"
          /\ DOMAIN v = {"routes", "offer", "connector", "risk", "port"}
      BY <2>7
    <2>9. o.values = v
      BY <2>1, <2>3, <2>4, <2>5, <2>6, <2>7 DEF AdvertiseForm
    <2>10. "no" \in FieldValues.risk
      BY DEF FieldValues
    <2> QED BY <1>3, <2>3, <2>4, <2>5, <2>6, <2>8, <2>9, <2>10
  <1> QED BY <1>1, <1>2, <1>3

\* The filled form: what was typed, and the rest as it was shown.
LEMMA FilledIs ==
    ASSUME IsStock(stock), NEW form, IsForm(form), NEW typed \in stock.typed, DOMAIN typed \subseteq DOMAIN form.values
    PROVE  /\ DOMAIN Filled(form, typed) = DOMAIN form.values
           /\ \A f \in DOMAIN form.values :
                 /\ f \in Touched(form, typed) \/ Filled(form, typed)[f] = form.values[f]
                 /\ (form.kind # "preferences" \/ f \in Touched(form, typed)) => Filled(form, typed)[f] \in FieldValues[f]
PROOF
  <1>1. PICK v : v = Filled(form, typed)
    OBVIOUS
  <1>2. v = [f \in DOMAIN form.values |-> IF f \in DOMAIN typed THEN typed[f] ELSE form.values[f]]
    BY <1>1 DEF Filled
  <1>3. \A f \in DOMAIN typed : typed[f] \in FieldValues[f]
    BY DEF IsStock
  <1>4. \A f \in DOMAIN form.values : f \in Touched(form, typed) \/ v[f] = form.values[f]
    BY <1>2 DEF Touched
  <1>5. form.kind # "preferences" => \A f \in DOMAIN form.values : form.values[f] \in FieldValues[f]
    BY HeldByForm DEF IsForm, FormKinds
  <1>6. \A f \in DOMAIN form.values : (form.kind # "preferences" \/ f \in Touched(form, typed)) => v[f] \in FieldValues[f]
    BY <1>2, <1>3, <1>5 DEF Touched
  <1> QED BY <1>1, <1>2, <1>4, <1>6

\* The request a filled form makes, of which a review can open.
LEMMA AskedIs ==
    ASSUME IsStock(stock), NEW form, IsForm(form), NEW typed \in stock.typed, DOMAIN typed \subseteq DOMAIN form.values,
           NEW k, NEW j, NEW q \in RequestsFilled(k, form, Filled(form, typed)), ValidRequest(j, q)
    PROVE  /\ q.kind = form.kind /\ "set" \in DOMAIN q
           /\ Asked(q, form, Touched(form, typed))
           /\ \A f \in DOMAIN q.set : f \notin j.managed
PROOF
  <1>1. PICK v : v = Filled(form, typed)
    OBVIOUS
  <1>2. PICK touched : touched = Touched(form, typed)
    OBVIOUS
  <1>3. /\ DOMAIN v = DOMAIN form.values
        /\ \A f \in DOMAIN form.values :
              /\ f \in touched \/ v[f] = form.values[f]
              /\ (form.kind # "preferences" \/ f \in touched) => v[f] \in FieldValues[f]
    BY <1>1, <1>2, FilledIs
  <1>4. CASE form.kind = "preferences"
    <2>1. form.values = [f \in Flags |-> "unchanged"]
      BY <1>4, HeldByForm
    <2>2. PICK changed : changed = {f \in Flags \ form.locked : v[f] # "unchanged"}
      OBVIOUS
    <2>3. PICK set : set = [f \in changed |-> v[f]]
      OBVIOUS
    <2>4. q = [kind |-> "preferences", set |-> set]
      BY <1>1, <1>4, <2>2, <2>3 DEF RequestsFilled, PreferencesAsked
    <2>5. q.kind = "preferences" /\ q.set = set /\ "set" \in DOMAIN q /\ DOMAIN set = changed
      BY <2>3, <2>4
    <2>6. \A f \in changed : f \in Flags /\ f \in touched /\ v[f] \in FieldValues[f]
      BY <1>3, <2>1, <2>2
    <2>7. \A f \in changed : CanEdit(j, f)
      BY <2>5 DEF ValidRequest
    <2>8. Flags \subseteq DOMAIN FieldValues
      BY DEF Flags, FieldValues
    <2>9. Asked(q, form, touched)
      BY <2>3, <2>5, <2>6, <2>7, <2>8 DEF Asked, CanEdit
    <2> QED BY <1>2, <1>4, <2>5, <2>7, <2>9 DEF CanEdit
  <1>5. CASE form.kind = "exit"
    <2>1. DOMAIN form.values = {"exit", "lan"}
      BY <1>5, HeldByForm
    <2>2. PICK set : set = [exit |-> v.exit, lan |-> v.lan]
      OBVIOUS
    <2>3. /\ q = [kind |-> "exit", set |-> set]
          /\ ~(v.exit = "none" /\ v.lan = "yes")
      BY <1>1, <1>5, <2>2 DEF RequestsFilled, ExitAsked
    <2>4. q.kind = "exit" /\ q.set = set /\ "set" \in DOMAIN q
      BY <2>3
    <2>5. DOMAIN set = {"exit", "lan"} /\ set.exit = v.exit /\ set.lan = v.lan /\ set = [f \in DOMAIN set |-> set[f]]
      BY <2>2
    <2>6. v.exit \in FieldValues.exit /\ v.lan \in FieldValues.lan
      BY <1>3, <1>5, <2>1
    <2>7. v.exit = "none" => v.lan = "no"
      BY <2>3, <2>6 DEF FieldValues
    <2>8. CanEdit(j, "exit") /\ CanEdit(j, "lan")
      BY <2>4 DEF ValidRequest
    <2>9. {"exit", "lan"} \subseteq DOMAIN FieldValues
      BY DEF FieldValues
    <2>10. \A f \in {"exit", "lan"} : f \notin j.managed /\ f \notin stock.silent
      BY <2>8 DEF CanEdit, Reported
    <2>11. Asked(q, form, touched)
      BY <1>3, <2>1, <2>4, <2>5, <2>6, <2>7, <2>9, <2>10 DEF Asked, Reported
    <2> QED BY <1>2, <1>5, <2>4, <2>5, <2>10, <2>11
  <1>6. CASE form.kind = "advertise"
    <2>1. DOMAIN form.values = {"routes", "offer", "connector", "risk", "port"}
      BY <1>6, HeldByForm
    <2>2. PICK set : set = [f \in {"routes", "offer", "connector", "port"} |-> v[f]]
      OBVIOUS
    <2>3. q = [kind |-> "advertise", set |-> set, risk |-> v.risk]
      BY <1>1, <1>6, <2>2 DEF RequestsFilled, AdvertiseAsked
    <2>4. q.kind = "advertise" /\ q.set = set /\ "set" \in DOMAIN q
      BY <2>3
    <2>5. DOMAIN set = {"routes", "offer", "connector", "port"} /\ \A f \in DOMAIN set : set[f] = v[f]
      BY <2>2
    <2>6. "offer" \notin j.managed /\ \A f \in {"routes", "connector", "port"} : CanEdit(j, f)
      BY <2>4 DEF ValidRequest
    <2>7. DOMAIN set \subseteq DOMAIN FieldValues
      BY <2>5 DEF FieldValues
    <2>8. \A f \in DOMAIN set : f \notin j.managed /\ (f = "offer" \/ Reported(f))
      BY <2>5, <2>6 DEF CanEdit
    <2>9. Asked(q, form, touched)
      <3>1. \A f \in DOMAIN set : set[f] \in FieldValues[f] /\ (f \in touched \/ set[f] = form.values[f])
        BY <1>3, <1>6, <2>1, <2>5
      <3>2. set = [f \in DOMAIN set |-> set[f]]
        BY <2>2
      <3> QED BY <2>4, <2>5, <2>7, <2>8, <3>1, <3>2 DEF Asked
    <2> QED BY <1>2, <1>6, <2>4, <2>8, <2>9
  <1> QED BY <1>4, <1>5, <1>6 DEF IsForm, FormKinds

-----------------------------------------------------------------------------
(* Operator requests: what a step leaves alone *)

LEMMA KnownStays ==
    ASSUME stock'.silent = stock.silent, NEW k, KnownFits(k), known' = k
    PROVE  KnownFits(known)'
PROOF
  <1>1. KnownFits(k)'
    <2>1. IsReading(k.prefs)' <=> IsReading(k.prefs)
      BY DEF IsReading, Reported
    <2>2. \A i \in 1..Len(k.open) : (IsForm(k.open[i])' <=> IsForm(k.open[i])) /\ (IsReview(k.open[i])' <=> IsReview(k.open[i]))
      BY OverlayStays
    <2>3. ASSUME NEW o, OverlayFits(o)
          PROVE  OverlayFits(o)'
      BY <2>3, OverlayStays
    <2>4. IsKnown(k)'
      BY <2>1, <2>2 DEF KnownFits, IsKnown
    <2>5. (\A i \in 1..Len(k.open) : OverlayFits(k.open[i]))'
      BY <2>3 DEF KnownFits
    <2> QED BY <2>4, <2>5 DEF KnownFits, IsList
  <1>2. KnownFits(known)' <=> KnownFits(k)'
    BY DEF KnownFits
  <1> QED BY <1>1, <1>2

LEMMA WorkStays ==
    ASSUME stock'.silent = stock.silent, NEW w, Worked(w), work' = w
    PROVE  Worked(work)'
PROOF
  <1>1. Worked(w)'
    <2>1. IsWork(w)' <=> IsWork(w)
      BY DEF IsWork, IsReview, IsForm, IsReading, Reported, FormValues, ExitForm, AdvertiseForm, PreferencesForm
    <2>2. ReviewFits(w.review)' <=> ReviewFits(w.review)
      BY DEF ReviewFits, IsForm, IsReading, Asked, Reported, FormValues, ExitForm, AdvertiseForm, PreferencesForm, TypedFor
    <2>3. WorkFits(w)' <=> WorkFits(w)
      BY <2>2 DEF WorkFits, BornOut
    <2> QED BY <2>1, <2>3 DEF Worked
  <1>2. Worked(work)' <=> Worked(w)'
    BY DEF Worked
  <1> QED BY <1>1, <1>2

LEMMA InvStays ==
    ASSUME IsStock(stock)', stock'.silent = stock.silent, NEW k, NEW w, NEW n,
           KnownFits(k), Worked(w), n \in Nodes, known' = k, work' = w, node' = n
    PROVE  OperatorInv'
  BY KnownStays, WorkStays DEF OperatorInv

-----------------------------------------------------------------------------
(* Operator requests: the overlays *)

LEMMA SequencesAreLists ==
    ASSUME NEW S, NEW s \in Seq(S)
    PROVE  IsList(s)
  BY DEF IsList

LEMMA OpenedIs ==
    ASSUME NEW k, KnownFits(k), NEW s, IsList(s), \A i \in 1..Len(s) : OverlayFits(s[i])
    PROVE  KnownFits([k EXCEPT !.open = s])
PROOF
  <1>1. PICK j : j = [k EXCEPT !.open = s]
    OBVIOUS
  <1>2. DOMAIN k = {"read", "prefs", "managed", "policy", "peers", "accounts", "selected", "open"}
    BY DEF KnownFits, IsKnown
  <1>3. /\ DOMAIN j = DOMAIN k /\ j.open = s /\ j.read = k.read /\ j.prefs = k.prefs /\ j.managed = k.managed
        /\ j.policy = k.policy /\ j.peers = k.peers /\ j.accounts = k.accounts /\ j.selected = k.selected
    BY <1>1, <1>2
  <1>4. \A i \in 1..Len(s) : IsForm(s[i]) \/ IsReview(s[i])
    BY DEF OverlayFits
  <1>5. IsKnown(j)
    BY <1>3, <1>4 DEF KnownFits, IsKnown
  <1>6. KnownFits(j)
    BY <1>3, <1>5 DEF KnownFits
  <1> QED BY <1>1, <1>6

LEMMA AtopFits ==
    ASSUME NEW k, KnownFits(k), NEW o, OverlayFits(o)
    PROVE  KnownFits(Atop(k, o))
PROOF
  <1>1. PICK s : s = k.open
    OBVIOUS
  <1>2. PICK n \in Nat : n = Len(s) /\ s = [i \in 1..n |-> s[i]]
    BY <1>1 DEF KnownFits, IsList
  <1>3. PICK S : S = {s[i] : i \in 1..n} \cup {o}
    OBVIOUS
  <1>4. s \in Seq(S)
    BY <1>2, <1>3
  <1>5. PICK t \in Seq(S) : t = <<o>> \o s
    <2>1. <<o>> \in Seq(S)
      BY <1>3
    <2> QED BY <1>4, <2>1, ConcatProperties
  <1>6. /\ Len(t) = n + 1 /\ t[1] = o
        /\ \A i \in 2..(n + 1) : t[i] = s[i - 1]
    BY <1>2, <1>3, <1>4, <1>5
  <1>7. IsList(t)
    BY <1>5 DEF IsList
  <1>8. \A i \in 1..Len(t) : OverlayFits(t[i])
    <2>1. \A i \in 1..n : OverlayFits(s[i])
      BY <1>1, <1>2 DEF KnownFits
    <2>2. ASSUME NEW i \in 1..(n + 1)
          PROVE  OverlayFits(t[i])
      <3>1. CASE i = 1
        BY <1>6, <3>1
      <3>2. CASE i # 1
        <4>1. i \in 2..(n + 1) /\ i - 1 \in 1..n
          BY <3>2
        <4> QED BY <1>6, <2>1, <4>1
      <3> QED BY <3>1, <3>2
    <2> QED BY <1>6, <2>2
  <1>9. Atop(k, o) = [k EXCEPT !.open = t]
    BY <1>1, <1>5 DEF Atop
  <1> QED BY <1>7, <1>8, <1>9, OpenedIs

LEMMA BeneathFits ==
    ASSUME NEW k, KnownFits(k), k.open # <<>>
    PROVE  KnownFits(Beneath(k)) /\ OverlayFits(Head(k.open))
PROOF
  <1>1. PICK s : s = k.open
    OBVIOUS
  <1>2. PICK n \in Nat : n = Len(s) /\ s = [i \in 1..n |-> s[i]]
    BY <1>1 DEF KnownFits, IsList
  <1>3. PICK S : S = {s[i] : i \in 1..n}
    OBVIOUS
  <1>4. s \in Seq(S) /\ s # <<>>
    BY <1>1, <1>2, <1>3
  <1>5. PICK t \in Seq(S) : t = Tail(s)
    BY <1>4, HeadTailProperties
  <1>6. n > 0 /\ Len(t) = n - 1 /\ Head(s) = s[1] /\ \A i \in 1..(n - 1) : t[i] = s[i + 1]
    BY <1>2, <1>4, <1>5, HeadTailProperties
  <1>7. IsList(t)
    <2>1. t \in Seq(S)
      BY <1>5
    <2> QED BY <2>1, SequencesAreLists
  <1>8. \A i \in 1..n : OverlayFits(s[i])
    BY <1>1, <1>2 DEF KnownFits
  <1>9. \A i \in 1..Len(t) : OverlayFits(t[i])
    <2>1. ASSUME NEW i \in 1..(n - 1)
          PROVE  OverlayFits(t[i])
      <3>1. i + 1 \in 1..n
        OBVIOUS
      <3> QED BY <1>6, <1>8, <3>1
    <2> QED BY <1>6, <2>1
  <1>10. Beneath(k) = [k EXCEPT !.open = t]
    BY <1>1, <1>5 DEF Beneath
  <1>11. OverlayFits(Head(s))
    BY <1>6, <1>8
  <1> QED BY <1>1, <1>7, <1>9, <1>10, <1>11, OpenedIs

\* A review that opens.
LEMMA ReviewOpens ==
    ASSUME NEW k, KnownFits(k), NEW q, q.kind \in OperatorKinds, "set" \in DOMAIN q <=> q.kind \in FormKinds,
           NEW form, NEW touched, form = NoForm \/ IsForm(form),
           q.kind \in FormKinds /\ ValidRequest(k, q) =>
               /\ IsForm(form) /\ form.kind = q.kind /\ Asked(q, form, touched)
               /\ \A f \in DOMAIN q.set : f \notin k.managed
    PROVE  KnownFits(Reviewing(k, q, form, touched))
PROOF
  <1>1. CASE ~ValidRequest(k, q)
    BY <1>1 DEF Reviewing
  <1>2. CASE ValidRequest(k, q)
    <2>1. PICK drawn : drawn = Preview(k, q)
      OBVIOUS
    <2>2. PICK phrase : phrase = TypedFor(q)
      OBVIOUS
    <2>3. PICK o : o = [what |-> "review", request |-> q, phrase |-> phrase, lines |-> drawn, policy |-> k.managed,
                        form |-> form, touched |-> touched]
      OBVIOUS
    <2>4. /\ DOMAIN o = {"what", "request", "phrase", "lines", "policy", "form", "touched"} /\ o.what = "review"
          /\ o.request = q /\ o.phrase = phrase /\ o.lines = drawn /\ o.policy = k.managed /\ o.form = form /\ o.touched = touched
      BY <2>3
    <2>5. IsReview(o)
      BY <2>4 DEF IsReview
    <2>6. ASSUME q.kind \in FormKinds, NEW f \in DOMAIN q.set
          PROVE  drawn[f][2] = q.set[f]
      <3>1. drawn = [g \in DOMAIN q.set |-> Line(k, q, g)]
        BY <2>1, <2>6 DEF Preview
      <3>2. drawn[f] = Line(k, q, f)
        BY <2>6, <3>1
      <3> QED BY <3>2 DEF Line
    <2>7. ReviewFits(o)
      BY <1>2, <2>2, <2>4, <2>6 DEF ReviewFits
    <2>8. Reviewing(k, q, form, touched) = Atop(k, o)
      BY <1>2, <2>1, <2>2, <2>3 DEF Reviewing
    <2>9. OverlayFits(o)
      BY <2>5, <2>7 DEF OverlayFits
    <2> QED BY <2>8, <2>9, AtopFits
  <1> QED BY <1>1, <1>2

-----------------------------------------------------------------------------
(* Operator requests: what is learned *)

LEMMA LearnedFits ==
    ASSUME NEW k, KnownFits(k), NEW j, DOMAIN j = DOMAIN k, j.open = k.open,
           j.read \in BOOLEAN, j.read => IsReading(j.prefs), j.managed \subseteq Policies, j.policy \subseteq Policies,
           j.peers \subseteq Peers, j.accounts \subseteq LocalAccounts, j.selected \in LocalAccounts \cup {NoAccount}
    PROVE  KnownFits(j)
PROOF
  <1>1. IsKnown(j)
    BY DEF KnownFits, IsKnown
  <1>2. KnownFits(j)
    BY <1>1 DEF KnownFits
  <1> QED BY <1>2

LEMMA KnownFields ==
    ASSUME NEW k, KnownFits(k)
    PROVE  /\ DOMAIN k = {"read", "prefs", "managed", "policy", "peers", "accounts", "selected", "open"}
           /\ k.read \in BOOLEAN /\ (k.read => IsReading(k.prefs)) /\ k.managed \subseteq Policies /\ k.policy \subseteq Policies
           /\ k.peers \subseteq Peers /\ k.accounts \subseteq LocalAccounts /\ k.selected \in LocalAccounts \cup {NoAccount}
  BY DEF KnownFits, IsKnown

LEMMA PreferencesFit ==
    ASSUME NEW k, KnownFits(k), NEW n \in NodesRead
    PROVE  KnownFits(WithPreferences(k, Decoded(n)))
PROOF
  <1>1. PICK p : p = Decoded(n)
    OBVIOUS
  <1>2. PICK m : m = Managed(k.policy)
    OBVIOUS
  <1>3. PICK j : j = [k EXCEPT !.read = TRUE, !.prefs = p, !.managed = m]
    OBVIOUS
  <1>4. j = WithPreferences(k, Decoded(n))
    BY <1>1, <1>2, <1>3 DEF WithPreferences
  <1>5. m \subseteq Policies
    BY <1>2, KnownFields DEF Managed
  <1>6. IsReading(p)
    BY <1>1, DecodedIsReading
  <1>7. /\ DOMAIN j = DOMAIN k /\ j.open = k.open /\ j.read = TRUE /\ j.prefs = p /\ j.managed = m
        /\ j.policy = k.policy /\ j.peers = k.peers /\ j.accounts = k.accounts /\ j.selected = k.selected
    BY <1>3, KnownFields
  <1>8. KnownFits(j)
    BY <1>5, <1>6, <1>7, KnownFields, LearnedFits
  <1> QED BY <1>4, <1>8

LEMMA PolicyFits ==
    ASSUME NEW k, KnownFits(k), NEW policy \in SUBSET Policies
    PROVE  KnownFits(WithPolicy(k, policy))
PROOF
  <1>1. PICK m : m = k.managed \cup Managed(policy)
    OBVIOUS
  <1>2. PICK j : j = [k EXCEPT !.policy = policy, !.managed = m]
    OBVIOUS
  <1>3. j = WithPolicy(k, policy)
    BY <1>1, <1>2 DEF WithPolicy
  <1>4. m \subseteq Policies
    BY <1>1, KnownFields DEF Managed
  <1>5. /\ DOMAIN j = DOMAIN k /\ j.open = k.open /\ j.read = k.read /\ j.prefs = k.prefs /\ j.managed = m
        /\ j.policy = policy /\ j.peers = k.peers /\ j.accounts = k.accounts /\ j.selected = k.selected
    BY <1>2, KnownFields
  <1>6. KnownFits(j)
    BY <1>4, <1>5, KnownFields, LearnedFits
  <1> QED BY <1>3, <1>6

LEMMA AccountsFit ==
    ASSUME NEW k, KnownFits(k), NEW accounts \in SUBSET LocalAccounts
    PROVE  KnownFits(WithAccounts(k, accounts))
PROOF
  <1>1. PICK a \in LocalAccounts \cup {NoAccount} :
            a = IF k.selected \in accounts THEN k.selected ELSE IF accounts = {} THEN NoAccount ELSE CHOOSE b \in accounts : TRUE
    BY KnownFields
  <1>2. PICK j : j = [k EXCEPT !.accounts = accounts, !.selected = a]
    OBVIOUS
  <1>3. j = WithAccounts(k, accounts)
    BY <1>1, <1>2 DEF WithAccounts
  <1>4. /\ DOMAIN j = DOMAIN k /\ j.open = k.open /\ j.read = k.read /\ j.prefs = k.prefs /\ j.managed = k.managed
        /\ j.policy = k.policy /\ j.peers = k.peers /\ j.accounts = accounts /\ j.selected = a
    BY <1>2, KnownFields
  <1>5. KnownFits(j)
    BY <1>4, KnownFields, LearnedFits
  <1> QED BY <1>3, <1>5

LEMMA PeersFit ==
    ASSUME NEW k, KnownFits(k), NEW peers \in SUBSET Peers
    PROVE  KnownFits([k EXCEPT !.peers = peers])
PROOF
  <1>1. PICK j : j = [k EXCEPT !.peers = peers]
    OBVIOUS
  <1>2. /\ DOMAIN j = DOMAIN k /\ j.open = k.open /\ j.read = k.read /\ j.prefs = k.prefs /\ j.managed = k.managed
        /\ j.policy = k.policy /\ j.peers = peers /\ j.accounts = k.accounts /\ j.selected = k.selected
    BY <1>1, KnownFields
  <1>3. KnownFits(j)
    BY <1>2, KnownFields, LearnedFits
  <1> QED BY <1>1, <1>3

LEMMA SelectedFits ==
    ASSUME NEW k, KnownFits(k), NEW a \in k.accounts
    PROVE  KnownFits([k EXCEPT !.selected = a])
PROOF
  <1>1. PICK j : j = [k EXCEPT !.selected = a]
    OBVIOUS
  <1>2. /\ DOMAIN j = DOMAIN k /\ j.open = k.open /\ j.read = k.read /\ j.prefs = k.prefs /\ j.managed = k.managed
        /\ j.policy = k.policy /\ j.peers = k.peers /\ j.accounts = k.accounts /\ j.selected = a
    BY <1>1, KnownFields
  <1>3. KnownFits(j)
    BY <1>2, KnownFields, LearnedFits
  <1> QED BY <1>1, <1>3

LEMMA ClearedFits ==
    ASSUME NEW k, KnownFits(k)
    PROVE  KnownFits(Cleared(k))
PROOF
  <1>1. PICK blank : blank = Blank
    OBVIOUS
  <1>2. PICK j : j = [k EXCEPT !.read = FALSE, !.prefs = blank, !.managed = {}, !.policy = {}, !.peers = {}]
    OBVIOUS
  <1>3. j = Cleared(k)
    BY <1>1, <1>2 DEF Cleared
  <1>4. /\ DOMAIN j = DOMAIN k /\ j.open = k.open /\ j.read = FALSE /\ j.managed = {}
        /\ j.policy = {} /\ j.peers = {} /\ j.accounts = k.accounts /\ j.selected = k.selected
    BY <1>2, KnownFields
  <1>5. KnownFits(j)
    BY <1>4, KnownFields, LearnedFits
  <1> QED BY <1>3, <1>5

LEMMA RelearnedFits ==
    ASSUME NEW k, KnownFits(k), NEW q, NEW r \in NodesRead
    PROVE  KnownFits(Relearned(k, q, r))
PROOF
  <1>1. CASE q.kind \in OfAccount
    <2>1. PICK j : j = [k EXCEPT !.peers = r.peers] /\ KnownFits(j)
      BY NodeFields, PeersFit
    <2>2. PICK i : i = WithAccounts(j, r.accounts) /\ KnownFits(i)
      BY <2>1, NodeFields, AccountsFit
    <2>3. KnownFits(WithPreferences(i, Decoded(r)))
      BY <2>2, PreferencesFit
    <2> QED BY <1>1, <2>1, <2>2, <2>3 DEF Relearned, OfAccount, FormKinds
  <1>2. CASE q.kind = "reload"
    <2>1. KnownFits(WithPolicy(k, r.policy))
      BY NodeFields, PolicyFits
    <2> QED BY <1>2, <2>1 DEF Relearned, OfAccount, FormKinds
  <1>3. CASE q.kind \in FormKinds
    <2>1. KnownFits(WithPreferences(k, Decoded(r)))
      BY PreferencesFit
    <2> QED BY <1>3, <2>1 DEF Relearned, OfAccount, FormKinds
  <1>4. CASE q.kind \notin OfAccount \cup FormKinds \cup {"reload"}
    BY <1>4 DEF Relearned
  <1> QED BY <1>1, <1>2, <1>3, <1>4

\* The login that is offered shows nothing and asks for nothing.
LEMMA LoginFits == OverlayFits(LoginReview)
PROOF
  <1>1. PICK q : q = [kind |-> "login"]
    OBVIOUS
  <1>2. DOMAIN q = {"kind"} /\ q.kind = "login"
    BY <1>1
  <1>3. PICK drawn : drawn = <<>>
    OBVIOUS
  <1>4. PICK o : o = [what |-> "review", request |-> q, phrase |-> "none", lines |-> drawn, policy |-> {},
                      form |-> NoForm, touched |-> {}]
    OBVIOUS
  <1>5. /\ DOMAIN o = {"what", "request", "phrase", "lines", "policy", "form", "touched"} /\ o.what = "review"
        /\ o.request = q /\ o.phrase = "none" /\ o.form = NoForm
    BY <1>4
  <1>6. IsReview(o)
    BY <1>2, <1>5 DEF IsReview, OperatorKinds, FormKinds
  <1>7. TypedFor(q) = "none"
    BY <1>2 DEF TypedFor
  <1>8. ReviewFits(o)
    BY <1>2, <1>5, <1>7 DEF ReviewFits, FormKinds
  <1>9. o = LoginReview
    BY <1>1, <1>3, <1>4 DEF LoginReview
  <1> QED BY <1>6, <1>8, <1>9 DEF OverlayFits

LEMMA RequestsAreOfTheForm ==
    ASSUME NEW form, IsForm(form), NEW k, NEW v, NEW q \in RequestsFilled(k, form, v)
    PROVE  q.kind = form.kind /\ "set" \in DOMAIN q
PROOF
  <1>1. CASE form.kind = "preferences"
    <2>1. PICK set : q = [kind |-> "preferences", set |-> set]
      BY <1>1 DEF RequestsFilled, PreferencesAsked
    <2> QED BY <1>1, <2>1
  <1>2. CASE form.kind = "exit"
    <2>1. PICK set : q = [kind |-> "exit", set |-> set]
      BY <1>2 DEF RequestsFilled, ExitAsked
    <2> QED BY <1>2, <2>1
  <1>3. CASE form.kind = "advertise"
    <2>1. PICK set, risk : q = [kind |-> "advertise", set |-> set, risk |-> risk]
      BY <1>3 DEF RequestsFilled, AdvertiseAsked
    <2> QED BY <1>3, <2>1
  <1> QED BY <1>1, <1>2, <1>3 DEF IsForm, FormKinds

-----------------------------------------------------------------------------
(* Operator requests: every step *)

LEMMA Unspent ==
    ASSUME IsStock(stock), stock' = stock
    PROVE  IsStock(stock)' /\ stock'.silent = stock.silent
  BY DEF IsStock

LEMMA LearnKeeps ==
    ASSUME OperatorInv, NEW k, KnownFits(k), Learn(k)
    PROVE  OperatorInv'
PROOF
  <1>1. IsStock(stock)' /\ stock'.silent = stock.silent
    BY StillLess DEF OperatorInv, Learn
  <1>2. known' = k /\ work' = work /\ node' = node /\ Worked(work) /\ node \in Nodes
    BY DEF OperatorInv, Learn
  <1> QED BY <1>1, <1>2, InvStays

LEMMA ArrivalsKeep ==
    ASSUME OperatorInv, PreferencesArrive \/ PolicyArrives \/ AccountsArrive \/ PeersArrive
    PROVE  OperatorInv'
PROOF
  <1>1. KnownFits(known) /\ node \in NodesRead
    BY NodesAreRead DEF OperatorInv
  <1>2. CASE PreferencesArrive
    BY <1>1, <1>2, PreferencesFit, LearnKeeps DEF PreferencesArrive
  <1>3. CASE PolicyArrives
    <2>1. node.policy \in SUBSET Policies
      BY <1>1, NodeFields
    <2> QED BY <1>1, <1>3, <2>1, PolicyFits, LearnKeeps DEF PolicyArrives
  <1>4. CASE AccountsArrive
    <2>1. node.accounts \in SUBSET LocalAccounts
      BY <1>1, NodeFields
    <2> QED BY <1>1, <1>4, <2>1, AccountsFit, LearnKeeps DEF AccountsArrive
  <1>5. CASE PeersArrive
    <2>1. node.peers \in SUBSET Peers
      BY <1>1, NodeFields
    <2> QED BY <1>1, <1>5, <2>1, PeersFit, LearnKeeps DEF PeersArrive
  <1> QED BY <1>2, <1>3, <1>4, <1>5

LEMMA OperatorAsksKeep ==
    ASSUME OperatorInv, NEW kind \in OperatorKinds, AskOperator(kind)
    PROVE  OperatorInv'
PROOF
  <1>1. IsStock(stock)' /\ stock'.silent = stock.silent
    BY StillLess DEF OperatorInv, AskOperator
  <1>2. work' = work /\ node' = node /\ Worked(work) /\ node \in Nodes /\ KnownFits(known)
    BY DEF OperatorInv, AskOperator
  <1>3. PICK k : known' = k /\ KnownFits(k)
    <2>1. CASE kind \in FormKinds
      <3>1. known.read /\ known' = Atop(known, OperatorForm(known, kind))
        BY <2>1 DEF AskOperator
      <3>2. IsForm(OperatorForm(known, kind))
        BY <1>2, <2>1, <3>1, FormOpens DEF KnownFits
      <3> QED BY <1>2, <3>1, <3>2, AtopFits DEF OverlayFits
    <2>2. CASE kind \notin FormKinds
      <3>1. PICK q \in RequestFor(known, kind) : known' = Reviewing(known, q, NoForm, {})
        BY <2>2 DEF AskOperator
      <3>2. q.kind = kind /\ "set" \notin DOMAIN q
        BY <3>1 DEF RequestFor
      <3>3. KnownFits(Reviewing(known, q, NoForm, {}))
        BY <1>2, <2>2, <3>2, ReviewOpens
      <3> QED BY <3>1, <3>3
    <2> QED BY <2>1, <2>2
  <1> QED BY <1>1, <1>2, <1>3, InvStays

LEMMA AcceptFormKeeps ==
    ASSUME OperatorInv, AcceptOperatorForm
    PROVE  OperatorInv'
PROOF
  <1>1. IsStock(stock)' /\ stock'.silent = stock.silent
    BY Unspent DEF OperatorInv, AcceptOperatorForm
  <1>2. work' = work /\ node' = node /\ Worked(work) /\ node \in Nodes /\ KnownFits(known) /\ IsStock(stock)
    BY DEF OperatorInv, AcceptOperatorForm
  <1>3. PICK typed, q :
            /\ typed \in stock.typed /\ DOMAIN typed \subseteq DOMAIN Foremost.values \ Foremost.locked
            /\ q \in RequestsFilled(known, Foremost, Filled(Foremost, typed))
            /\ known' = Reviewing(Beneath(known), q, Foremost, Touched(Foremost, typed))
    BY DEF AcceptOperatorForm
  <1>4. PICK form : form = Foremost
    OBVIOUS
  <1>5. PICK k : k = Beneath(known)
    OBVIOUS
  <1>6. KnownFits(k) /\ OverlayFits(form) /\ form.what = "form"
    BY <1>2, <1>4, <1>5, BeneathFits DEF AcceptOperatorForm, Foremost
  <1>7. IsForm(form)
    BY <1>6 DEF OverlayFits, IsReview
  <1>8. /\ typed \in stock.typed /\ DOMAIN typed \subseteq DOMAIN form.values
        /\ q \in RequestsFilled(known, form, Filled(form, typed))
    BY <1>3, <1>4
  <1>9. q.kind = form.kind /\ "set" \in DOMAIN q
    BY <1>8, RequestsAreOfTheForm, <1>7
  <1>10. ValidRequest(k, q) => Asked(q, form, Touched(form, typed)) /\ \A f \in DOMAIN q.set : f \notin k.managed
    BY <1>2, <1>3, <1>7, <1>8, AskedIs
  <1>11. form.kind \in FormKinds /\ FormKinds \subseteq OperatorKinds
    BY <1>7 DEF IsForm, FormKinds, OperatorKinds
  <1>12. KnownFits(Reviewing(k, q, form, Touched(form, typed)))
    BY <1>6, <1>7, <1>9, <1>10, <1>11, ReviewOpens
  <1> QED BY <1>1, <1>2, <1>3, <1>4, <1>5, <1>12, InvStays

LEMMA ClosesKeep ==
    ASSUME OperatorInv, CloseOperator \/ SelectAccount
    PROVE  OperatorInv'
PROOF
  <1>1. IsStock(stock)' /\ stock'.silent = stock.silent
    BY Unspent DEF OperatorInv, CloseOperator, SelectAccount
  <1>2. work' = work /\ node' = node /\ Worked(work) /\ node \in Nodes /\ KnownFits(known)
    BY DEF OperatorInv, CloseOperator, SelectAccount
  <1>3. PICK k : known' = k /\ KnownFits(k)
    <2>1. CASE CloseOperator
      BY <1>2, <2>1, BeneathFits DEF CloseOperator
    <2>2. CASE SelectAccount
      BY <1>2, <2>2, SelectedFits DEF SelectAccount
    <2> QED BY <2>1, <2>2
  <1> QED BY <1>1, <1>2, <1>3, InvStays

LEMMA AcceptKeeps ==
    ASSUME OperatorInv, AcceptOperator
    PROVE  OperatorInv'
PROOF
  <1>1. IsStock(stock)' /\ stock'.silent = stock.silent
    BY Unspent DEF OperatorInv, AcceptOperator
  <1>2. node' = node /\ Worked(work) /\ node \in Nodes /\ KnownFits(known) /\ known' = Beneath(known)
    BY DEF OperatorInv, AcceptOperator
  <1>3. KnownFits(Beneath(known)) /\ OverlayFits(Foremost) /\ Foremost.what = "review"
    BY <1>2, BeneathFits DEF AcceptOperator, Foremost
  <1>4. PICK o : o = Foremost
    OBVIOUS
  <1>5. IsReview(o) /\ ReviewFits(o)
    BY <1>3, <1>4 DEF OverlayFits, IsForm
  <1>6. PICK w : work' = w /\ Worked(w)
    <2>1. CASE work' = work
      BY <1>2, <2>1
    <2>2. CASE work' # work
      <3>1. PICK w : w = [step |-> "queued", review |-> o, cancelled |-> FALSE, result |-> "none", status |-> "none",
                          before |-> node, after |-> node, read |-> node]
        OBVIOUS
      <3>2. work' = w
        BY <1>4, <2>2, <3>1 DEF AcceptOperator
      <3>3. /\ DOMAIN w = {"step", "review", "cancelled", "result", "status", "before", "after", "read"}
            /\ w.step = "queued" /\ w.review = o /\ w.cancelled = FALSE /\ w.result = "none" /\ w.status = "none"
            /\ w.before = node /\ w.after = node /\ w.read = node
        BY <3>1
      <3>4. IsWork(w)
        BY <1>2, <1>5, <3>3, NodesAreRead DEF IsWork
      <3>5. WorkFits(w)
        BY <1>5, <3>3 DEF WorkFits
      <3> QED BY <3>2, <3>4, <3>5 DEF Worked
    <2> QED BY <2>1, <2>2
  <1> QED BY <1>1, <1>2, <1>3, <1>6, InvStays

\* What a step of the mutation itself sets.
LEMMA WorkFields ==
    ASSUME Worked(work), work.step # "none"
    PROVE  /\ IsWork(work) /\ WorkFits(work)
           /\ DOMAIN work = {"step", "review", "cancelled", "result", "status", "before", "after", "read"}
  BY DEF Worked, NoWork, IsWork

LEMMA CancelKeeps ==
    ASSUME OperatorInv, CancelOperator
    PROVE  OperatorInv'
PROOF
  <1>1. IsStock(stock)' /\ stock'.silent = stock.silent
    BY StillLess DEF OperatorInv, CancelOperator
  <1>2. /\ node' = node /\ Worked(work) /\ node \in Nodes /\ KnownFits(known) /\ known' = known
        /\ work' = [work EXCEPT !.cancelled = TRUE] /\ work.step # "none"
    <2>1. work.step \notin {"none", "ended"}
      BY DEF CancelOperator, InFlight
    <2>2. work' = [work EXCEPT !.cancelled = TRUE] /\ node' = node /\ known' = known
      BY DEF CancelOperator
    <2> QED BY <2>1, <2>2 DEF OperatorInv
  <1>3. IsWork(work) /\ WorkFits(work)
    BY <1>2, WorkFields
  <1>4. PICK w : w = [work EXCEPT !.cancelled = TRUE]
    OBVIOUS
  <1>5. /\ DOMAIN w = DOMAIN work /\ w.step = work.step /\ w.review = work.review /\ w.cancelled = TRUE
        /\ w.result = work.result /\ w.status = work.status
        /\ w.before = work.before /\ w.after = work.after /\ w.read = work.read
    BY <1>2, <1>4, WorkFields
  <1>6. IsWork(w)
    BY <1>3, <1>5 DEF IsWork
  <1>7. BornOut(w) <=> BornOut(work)
    BY <1>5 DEF BornOut
  <1>8. WorkFits(w)
    BY <1>3, <1>5, <1>7 DEF WorkFits
  <1> QED BY <1>1, <1>2, <1>4, <1>6, <1>8, InvStays DEF Worked

LEMMA DispatchKeeps ==
    ASSUME OperatorInv, DispatchOperator
    PROVE  OperatorInv'
PROOF
  <1>1. IsStock(stock)' /\ stock'.silent = stock.silent
    BY Unspent DEF OperatorInv, DispatchOperator
  <1>2. /\ node' = node /\ Worked(work) /\ node \in Nodes /\ KnownFits(known) /\ known' = known /\ work.step = "queued"
    BY DEF OperatorInv, DispatchOperator
  <1>3. PICK step, result : /\ work' = [work EXCEPT !.step = step, !.result = result]
                            /\ (step = "sent" /\ result = "Cancelled") \/ (step = "command" /\ result = "none")
    BY DEF DispatchOperator, Reaches
  <1>4. IsWork(work) /\ WorkFits(work)
    BY <1>2, WorkFields
  <1>5. PICK w : w = [work EXCEPT !.step = step, !.result = result]
    OBVIOUS
  <1>6. /\ DOMAIN w = DOMAIN work /\ w.step = step /\ w.review = work.review /\ w.cancelled = work.cancelled
        /\ w.result = result /\ w.status = work.status
        /\ w.before = work.before /\ w.after = work.after /\ w.read = work.read
    BY <1>2, <1>5, WorkFields
  <1>7. IsWork(w)
    BY <1>3, <1>4, <1>6 DEF IsWork
  <1>8. w.after = w.before /\ w.status = "none" /\ ReviewFits(w.review)
    BY <1>2, <1>4, <1>6 DEF WorkFits
  <1>9. WorkFits(w)
    BY <1>3, <1>6, <1>8 DEF WorkFits
  <1> QED BY <1>1, <1>2, <1>3, <1>5, <1>7, <1>9, InvStays DEF Worked

\* What the daemon makes of a request stays a node.
LEMMA TookIsNode ==
    ASSUME NEW n \in Nodes, NEW o, IsReview(o), ReviewFits(o)
    PROVE  Took(n, o.request) \in Nodes
PROOF
  <1>1. CASE o.request.kind \in FormKinds
    BY <1>1, TookSet DEF ReviewFits
  <1>2. CASE o.request.kind \notin FormKinds
    BY <1>2, TookElse DEF IsReview
  <1> QED BY <1>1, <1>2

LEMMA CommandKeeps ==
    ASSUME OperatorInv, OperatorCommandEnds
    PROVE  OperatorInv'
PROOF
  <1>1. IsStock(stock)' /\ stock'.silent = stock.silent
    BY Unspent, StillLess DEF OperatorInv, OperatorCommandEnds
  <1>2. Worked(work) /\ node \in Nodes /\ KnownFits(known) /\ known' = known /\ work.step = "command"
    BY DEF OperatorInv, OperatorCommandEnds
  <1>3. IsWork(work) /\ WorkFits(work)
    BY <1>2, WorkFields
  <1>4. PICK n : n = node' /\ n \in {node, Took(node, Request)}
    BY DEF OperatorCommandEnds
  <1>5. n \in Nodes
    BY <1>2, <1>3, <1>4, TookIsNode DEF IsWork, WorkFits, Request
  <1>6. PICK status \in {"ok", "nonzero", "stopped"} :
            work' = [work EXCEPT !.step = "read", !.status = status, !.before = node, !.after = n]
    BY <1>4 DEF OperatorCommandEnds
  <1>7. PICK w : w = [work EXCEPT !.step = "read", !.status = status, !.before = node, !.after = n]
    OBVIOUS
  <1>8. /\ DOMAIN w = DOMAIN work /\ w.step = "read" /\ w.review = work.review /\ w.cancelled = work.cancelled
        /\ w.result = work.result /\ w.status = status /\ w.before = node /\ w.after = n /\ w.read = work.read
    BY <1>2, <1>7, WorkFields
  <1>9. IsWork(w)
    BY <1>2, <1>3, <1>5, <1>8 DEF IsWork
  <1>10. w.result = "none" /\ ReviewFits(w.review)
    BY <1>2, <1>3, <1>8 DEF WorkFits
  <1>11. WorkFits(w)
    BY <1>4, <1>8, <1>10 DEF WorkFits, Request
  <1> QED BY <1>1, <1>2, <1>4, <1>5, <1>6, <1>7, <1>9, <1>11, InvStays DEF Worked

LEMMA OperatorReadsKeep ==
    ASSUME OperatorInv, ReadOperator
    PROVE  OperatorInv'
PROOF
  <1>1. IsStock(stock)' /\ stock'.silent = stock.silent
    BY Unspent, StillLess DEF OperatorInv, ReadOperator
  <1>2. node' = node /\ Worked(work) /\ node \in Nodes /\ KnownFits(known) /\ known' = known /\ work.step = "read"
    BY DEF OperatorInv, ReadOperator
  <1>3. IsWork(work) /\ WorkFits(work)
    BY <1>2, WorkFields
  <1>4. PICK result, r : /\ work' = [work EXCEPT !.step = "sent", !.result = result, !.read = r]
                         /\ \/ result = ResultOf(work.status, Verify(node, Request)) /\ r = node
                            \/ result = ResultOf(work.status, "?") /\ r = [work.read EXCEPT !.running = "unread"]
    <2>1. CASE work' = [work EXCEPT !.step = "sent", !.result = ResultOf(work.status, Verify(node, Request)), !.read = node]
      BY <2>1
    <2>2. CASE work' = [work EXCEPT !.step = "sent", !.result = ResultOf(work.status, "?"), !.read.running = "unread"]
      <3>1. PICK r : r = [work.read EXCEPT !.running = "unread"]
        OBVIOUS
      <3>2. work' = [work EXCEPT !.step = "sent", !.result = ResultOf(work.status, "?"), !.read = r]
        BY <2>2, <3>1
      <3> QED BY <3>1, <3>2
    <2> QED BY <2>1, <2>2 DEF ReadOperator
  <1>5. PICK w : w = [work EXCEPT !.step = "sent", !.result = result, !.read = r]
    OBVIOUS
  <1>6. /\ DOMAIN w = DOMAIN work /\ w.step = "sent" /\ w.review = work.review /\ w.cancelled = work.cancelled
        /\ w.status = work.status /\ w.before = work.before /\ w.after = work.after /\ w.result = result /\ w.read = r
    BY <1>2, <1>5, WorkFields
  <1>7. w.read \in NodesRead
    <2>1. work.read \in NodesRead
      BY <1>3 DEF IsWork
    <2>2. [work.read EXCEPT !.running = "unread"] \in NodesRead
      BY <2>1 DEF NodesRead, NodesIn
    <2> QED BY <1>2, <1>4, <1>6, <2>2, NodesAreRead
  <1>8. /\ w.result \in {"CommandFailed", "Verified", "Mismatch", "Unknown", "ReadFailed"}
        /\ w.result = "Verified" => w.read = node /\ Verify(node, Request) = "yes"
    BY <1>4, <1>6 DEF ResultOf
  <1>9. IsWork(w)
    BY <1>3, <1>6, <1>7, <1>8 DEF IsWork
  <1>10. ReviewFits(w.review) /\ (w.after = w.before \/ w.after = Took(w.before, w.review.request))
    BY <1>3, <1>6 DEF WorkFits
  <1>11. w.result = "Verified" => BornOut(w)
    BY <1>6, <1>7, <1>8, <1>9, <1>10, VerifiedIsSo DEF IsWork, Request
  <1>12. WorkFits(w)
    BY <1>6, <1>8, <1>10, <1>11 DEF WorkFits
  <1> QED BY <1>1, <1>2, <1>4, <1>5, <1>9, <1>12, InvStays DEF Worked

LEMMA FinishKeeps ==
    ASSUME OperatorInv, FinishOperator
    PROVE  OperatorInv'
PROOF
  <1>1. IsStock(stock)' /\ stock'.silent = stock.silent
    BY Unspent DEF OperatorInv, FinishOperator
  <1>2. node' = node /\ Worked(work) /\ node \in Nodes /\ KnownFits(known) /\ work.step = "sent"
    BY DEF OperatorInv, FinishOperator
  <1>3. IsWork(work) /\ WorkFits(work)
    BY <1>2, WorkFields
  <1>4. PICK k : k \in {known, Cleared(known)} /\
            known' \in {k, Relearned(k, Request, work.read), Atop(Relearned(k, Request, work.read), LoginReview)}
    BY DEF FinishOperator
  <1>5. KnownFits(k)
    BY <1>2, <1>4, ClearedFits
  <1>6. KnownFits(Relearned(k, Request, work.read))
    BY <1>3, <1>5, RelearnedFits DEF IsWork
  <1>7. KnownFits(Atop(Relearned(k, Request, work.read), LoginReview))
    BY <1>6, LoginFits, AtopFits
  <1>8. PICK j : j = known' /\ KnownFits(j)
    BY <1>4, <1>5, <1>6, <1>7
  <1>9. PICK w : w = [work EXCEPT !.step = "ended", !.result = work.result]
    OBVIOUS
  <1>10. /\ DOMAIN w = DOMAIN work /\ w.step = "ended" /\ w.review = work.review /\ w.cancelled = work.cancelled
         /\ w.result = work.result /\ w.status = work.status
         /\ w.before = work.before /\ w.after = work.after /\ w.read = work.read
    BY <1>2, <1>9, WorkFields
  <1>11. IsWork(w)
    BY <1>3, <1>10 DEF IsWork
  <1>12. BornOut(w) <=> BornOut(work)
    BY <1>10 DEF BornOut
  <1>13. WorkFits(w)
    BY <1>3, <1>10, <1>12 DEF WorkFits
  <1>14. work' = w
    BY <1>9 DEF FinishOperator, Reaches
  <1> QED BY <1>1, <1>2, <1>8, <1>11, <1>13, <1>14, InvStays DEF Worked

LEMMA OtherHandsKeep ==
    ASSUME OperatorInv, OthersSet
    PROVE  OperatorInv'
PROOF
  <1>1. IsStock(stock)' /\ stock'.silent = stock.silent /\ IsStock(stock)
    BY StillLess DEF OperatorInv, OthersSet
  <1>2. node \in Nodes /\ Worked(work) /\ KnownFits(known) /\ known' = known /\ work' = work
    BY DEF OperatorInv, OthersSet
  <1>3. node' \in Nodes
    <2>1. ASSUME NEW t \in stock.typed, DOMAIN t \subseteq Fields,
                 node' = [node EXCEPT !.prefs[node.active] = Preferred(@, t, Managed(node.policy))]
          PROVE  node' \in Nodes
      <3>1. Flagged(t)
        BY <1>1 DEF IsStock, Flagged
      <3>2. node.active \in LocalAccounts \cup {NoAccount} /\ node.prefs \in [LocalAccounts \cup {NoAccount} -> Preferences]
        BY <1>2, NodesAreRead, NodeFields
      <3>3. PICK p \in Preferences : p = Preferred(node.prefs[node.active], t, Managed(node.policy))
        BY <3>1, <3>2, PreferredIs
      <3>4. PICK prefs \in [LocalAccounts \cup {NoAccount} -> Preferences] : prefs = [node.prefs EXCEPT ![node.active] = p]
        BY <3>2
      <3>5. node' = [node EXCEPT !.prefs = prefs]
        BY <2>1, <3>3, <3>4
      <3> QED BY <1>2, <3>5 DEF Nodes, NodesIn
    <2>2. ASSUME NEW m \in stock.policies, node' = [node EXCEPT !.policy = IF m \in @ THEN @ \ {m} ELSE @ \cup {m}]
          PROVE  node' \in Nodes
      <3>1. PICK policy \in SUBSET Policies : policy = IF m \in node.policy THEN node.policy \ {m} ELSE node.policy \cup {m}
        BY <1>1, <1>2, NodesAreRead, NodeFields DEF IsStock
      <3>2. node' = [node EXCEPT !.policy = policy]
        BY <2>2, <3>1
      <3> QED BY <1>2, <3>2 DEF Nodes, NodesIn
    <2>3. ASSUME NEW d \in Peers, node' = [node EXCEPT !.peers = IF d \in @ THEN @ \ {d} ELSE @ \cup {d}]
          PROVE  node' \in Nodes
      <3>1. PICK peers \in SUBSET Peers : peers = IF d \in node.peers THEN node.peers \ {d} ELSE node.peers \cup {d}
        BY <1>2, NodesAreRead, NodeFields
      <3>2. node' = [node EXCEPT !.peers = peers]
        BY <2>3, <3>1
      <3> QED BY <1>2, <3>2 DEF Nodes, NodesIn
    <2>4. ASSUME NEW a \in node.accounts, node' = [node EXCEPT !.active = a]
          PROVE  node' \in Nodes
      <3>1. a \in LocalAccounts
        BY <1>2, NodesAreRead, NodeFields
      <3> QED BY <1>2, <2>4, <3>1 DEF Nodes, NodesIn
    <2>5. ASSUME NEW r \in {"yes", "no", "login"}, node' = [node EXCEPT !.running = r]
          PROVE  node' \in Nodes
      BY <1>2, <2>5 DEF Nodes, NodesIn
    <2> QED BY <2>1, <2>2, <2>3, <2>4, <2>5 DEF OthersSet
  <1> QED BY <1>1, <1>2, <1>3, InvStays

LEMMA StartsFit ==
    ASSUME OperatorInit
    PROVE  OperatorInv
PROOF
  <1>1. IsStock(stock) /\ LocalAccounts # {}
    BY OperatorAssumption DEF OperatorInit
  <1>2. PICK a \in LocalAccounts : a = CHOOSE b \in LocalAccounts : TRUE
    BY <1>1
  <1>3. node = [prefs |-> stock.prefs, peers |-> Peers, policy |-> {}, accounts |-> LocalAccounts, active |-> a, running |-> stock.running]
    BY <1>2 DEF OperatorInit
  <1>4. node \in Nodes
    BY <1>1, <1>3 DEF Nodes, NodesIn, IsStock
  <1>5. PICK blank, open : blank = Blank /\ open = <<>>
    OBVIOUS
  <1>6. PICK k : k = [read |-> FALSE, prefs |-> blank, managed |-> {}, policy |-> {}, peers |-> {},
                      accounts |-> {}, selected |-> NoAccount, open |-> open]
    OBVIOUS
  <1>7. known = k
    BY <1>5, <1>6 DEF OperatorInit
  <1>8. /\ DOMAIN k = {"read", "prefs", "managed", "policy", "peers", "accounts", "selected", "open"}
        /\ k.read = FALSE /\ k.managed = {} /\ k.policy = {} /\ k.peers = {} /\ k.accounts = {} /\ k.selected = NoAccount /\ k.open = open
    BY <1>6
  <1>9. IsList(open) /\ Len(open) = 0
    <2>1. PICK S : S = {NoAccount}
      OBVIOUS
    <2>2. open \in Seq(S) /\ Len(open) = 0
      BY <1>5
    <2>3. IsList(open)
      BY <2>2, SequencesAreLists
    <2> QED BY <2>2, <2>3
  <1>10. KnownFits(k)
    <2>1. \A i \in 1..Len(k.open) : IsForm(k.open[i]) \/ IsReview(k.open[i])
      BY <1>8, <1>9
    <2>2. IsKnown(k)
      BY <1>8, <2>1 DEF IsKnown
    <2>3. IsList(k.open) /\ \A i \in 1..Len(k.open) : OverlayFits(k.open[i])
      BY <1>8, <1>9
    <2> QED BY <2>2, <2>3 DEF KnownFits
  <1>11. Worked(work)
    BY DEF OperatorInit, Worked
  <1> QED BY <1>1, <1>4, <1>7, <1>10, <1>11 DEF OperatorInv

LEMMA StepsKeep ==
    ASSUME OperatorInv, [OperatorNext]_operatorVars
    PROVE  OperatorInv'
PROOF
  <1>1. CASE UNCHANGED operatorVars
    <2>1. stock' = stock /\ node' = node /\ known' = known /\ work' = work
      BY <1>1 DEF operatorVars
    <2>2. IsStock(stock)' /\ stock'.silent = stock.silent
      BY <2>1, Unspent DEF OperatorInv
    <2> QED BY <2>1, <2>2, InvStays DEF OperatorInv
  <1>2. CASE PreferencesArrive \/ PolicyArrives \/ AccountsArrive \/ PeersArrive
    BY <1>2, ArrivalsKeep
  <1>3. CASE \E kind \in OperatorKinds : AskOperator(kind)
    BY <1>3, OperatorAsksKeep
  <1>4. CASE AcceptOperatorForm
    BY <1>4, AcceptFormKeeps
  <1>5. CASE CloseOperator \/ SelectAccount
    BY <1>5, ClosesKeep
  <1>6. CASE AcceptOperator
    BY <1>6, AcceptKeeps
  <1>7. CASE CancelOperator
    BY <1>7, CancelKeeps
  <1>8. CASE DispatchOperator
    BY <1>8, DispatchKeeps
  <1>9. CASE OperatorCommandEnds
    BY <1>9, CommandKeeps
  <1>10. CASE ReadOperator
    BY <1>10, OperatorReadsKeep
  <1>11. CASE FinishOperator
    BY <1>11, FinishKeeps
  <1>12. CASE OthersSet
    BY <1>12, OtherHandsKeep
  <1> QED
    BY <1>1, <1>2, <1>3, <1>4, <1>5, <1>6, <1>7, <1>8, <1>9, <1>10, <1>11, <1>12 DEF OperatorNext

LEMMA OperatorInvHolds == OperatorSpec => []OperatorInv
PROOF
  <1>1. OperatorInit => OperatorInv
    BY StartsFit
  <1>2. OperatorInv /\ [OperatorNext]_operatorVars => OperatorInv'
    BY StepsKeep
  <1> QED BY <1>1, <1>2, PTL DEF OperatorSpec

LEMMA InvSays == OperatorInv => OperatorTypeOK /\ CommandsDoAsReviewed
PROOF
  <1> SUFFICES ASSUME OperatorInv
               PROVE  OperatorTypeOK /\ CommandsDoAsReviewed
    OBVIOUS
  <1>1. OperatorTypeOK
    BY DEF OperatorInv, OperatorTypeOK, KnownFits, Worked
  <1>2. ASSUME work # NoWork
        PROVE  /\ ReachesOnlyReviewed(work) /\ LeavesTheRest(work)
               /\ \A f \in work.review.policy : ~InReview(work.review.request, f)
               /\ work.result = "Cancelled" => work.after = work.before /\ work.status = "none"
               /\ work.result = "Verified" => BornOut(work)
    <2>1. IsWork(work) /\ WorkFits(work)
      BY <1>2 DEF OperatorInv, Worked
    <2>2. ReachesOnlyReviewed(work) /\ LeavesTheRest(work)
      BY <2>1, DidWhatReviewed, LeftTheRest
    <2>3. \A f \in work.review.policy : ~InReview(work.review.request, f)
      BY <2>1 DEF IsWork, IsReview, WorkFits, ReviewFits, InReview
    <2> QED BY <2>1, <2>2, <2>3 DEF WorkFits
  <1> QED BY <1>1, <1>2 DEF CommandsDoAsReviewed

\* Whatever daemon answers, in whatever order its answers come, the local
\* node's requests stay well formed: what is known of it, the forms and reviews
\* on the screen and the mutation in flight (domain/preference.rs, action_reducer.rs, runtime.rs).
THEOREM OperatorTypeCorrect == OperatorSpec => []OperatorTypeOK
  BY OperatorInvHolds, InvSays, PTL

\* For every set of accounts, devices, policies and daemon: a local mutation does
\* what its review showed and nothing beside it, leaves alone what the form left
\* alone, and is told as verified or cancelled only when it was so.
THEOREM MutationsDoAsReviewed == OperatorSpec => []CommandsDoAsReviewed
  BY OperatorInvHolds, InvSays, PTL

-----------------------------------------------------------------------------
(* DeviceView: the rows of a device list *)

\* Of the rows of a list in which every device is once, each has a rank of its
\* own, and every rank up to their number is taken.
LEMMA RanksDiffer ==
    ASSUME NEW list, IsFleet(list), NEW order, NEW rows \in SUBSET DOMAIN list
    PROVE  /\ Cardinality(rows) \in Nat
           /\ \A i \in rows : Rank(list, order, rows, i) \in 0..(Cardinality(rows) - 1)
           /\ \A i, k \in rows : Rank(list, order, rows, i) = Rank(list, order, rows, k) => i = k
           /\ \A n \in 1..Cardinality(rows) : \E i \in rows : Rank(list, order, rows, i) = n - 1
PROOF
  <1> DEFINE Before(i) == {j \in rows : Precedes(list, order, j, i)}
             R(i) == Rank(list, order, rows, i)
             N == Cardinality(rows)
  <1>0. \A i : R(i) = Cardinality(Before(i))
    BY DEF Rank
  <1>1. DOMAIN list = 1..Len(list) /\ Len(list) \in Nat /\ \A i \in DOMAIN list : list[i] \in Nat
    BY DEF IsFleet, Unpicked
  <1>2. IsFiniteSet(rows) /\ N \in Nat
    <2>1. IsFiniteSet(1..Len(list))
      BY <1>1, FS_Interval
    <2> QED BY <1>1, <2>1, FS_Subset, FS_CardinalityType
  <1>3. ASSUME NEW i \in rows
        PROVE  IsFiniteSet(Before(i)) /\ R(i) \in 0..(N - 1) /\ i \notin Before(i)
    <2>1. i \notin Before(i)
      BY <1>1 DEF Precedes
    <2>2. IsFiniteSet(rows \ {i}) /\ Cardinality(rows \ {i}) = N - 1
      BY <1>2, FS_RemoveElement
    <2>3. Before(i) \in SUBSET (rows \ {i})
      BY <2>1
    <2>4. IsFiniteSet(Before(i)) /\ Cardinality(Before(i)) <= N - 1
      BY <2>2, <2>3, FS_Subset
    <2>5. Cardinality(Before(i)) \in Nat
      BY <2>4, FS_CardinalityType
    <2> QED BY <1>0, <1>2, <2>1, <2>4, <2>5
  <1>4. ASSUME NEW i \in rows, NEW k \in rows, i \in Before(k)
        PROVE  R(i) # R(k)
    <2>1. Before(i) \in SUBSET Before(k)
      BY <1>1, <1>4 DEF Precedes
    <2>2. IsFiniteSet(Before(k)) /\ i \notin Before(i)
      BY <1>3
    <2>3. Cardinality(Before(i)) # Cardinality(Before(k))
      BY <1>4, <2>1, <2>2, FS_Subset
    <2> QED BY <1>0, <2>3
  <1>5. ASSUME NEW i \in rows, NEW k \in rows, i # k
        PROVE  R(i) # R(k)
    <2>1. list[i] # list[k]
      BY <1>5 DEF IsFleet
    <2>2. i \in Before(k) \/ k \in Before(i)
      BY <1>1, <2>1 DEF Precedes
    <2> QED BY <1>4, <2>2
  <1>7. \A i \in rows : R(i) \in 0..(N - 1)
    BY <1>3
  <1> HIDE DEF R, N
  <1>6. ASSUME NEW n \in 1..N
        PROVE  \E i \in rows : R(i) = n - 1
    <2> DEFINE place == [i \in rows |-> R(i) + 1]
    <2>1. \A i \in rows : place[i] \in 1..N /\ place[i] = R(i) + 1 /\ R(i) \in Int
      BY <1>2, <1>7
    <2>2. \A i, k \in rows : place[i] = place[k] => i = k
      BY <1>5, <2>1
    <2>3. place \in Injection(rows, 1..N)
      BY <2>1, <2>2 DEF Injection, IsInjective
    <2>4. IsFiniteSet(1..N) /\ Cardinality(1..N) = N
      BY <1>2, FS_Interval
    <2>5. place \in Surjection(rows, 1..N)
      BY <2>3, <2>4, FS_Injection DEF N
    <2>6. PICK i \in rows : place[i] = n
      BY <2>5 DEF Surjection
    <2> QED BY <2>1, <2>6
  <1> QED BY <1>2, <1>3, <1>5, <1>6 DEF R, N

\* Ranked gives each of the rows once.
LEMMA RankedRows ==
    ASSUME NEW list, IsFleet(list), NEW order, NEW rows \in SUBSET DOMAIN list
    PROVE  /\ Cardinality(rows) \in Nat
           /\ DOMAIN Ranked(list, order, rows) = 1..Cardinality(rows)
           /\ Ranked(list, order, rows) = [n \in 1..Cardinality(rows) |-> Ranked(list, order, rows)[n]]
           /\ \A n \in 1..Cardinality(rows) : Ranked(list, order, rows)[n] \in rows
           /\ \A i \in rows : \E n \in 1..Cardinality(rows) : Ranked(list, order, rows)[n] = i
PROOF
  <1> DEFINE R(i) == Rank(list, order, rows, i)
             q == Ranked(list, order, rows)
             N == Cardinality(rows)
  <1>1. /\ N \in Nat
        /\ \A i \in rows : R(i) \in 0..(N - 1)
        /\ \A i, k \in rows : R(i) = R(k) => i = k
        /\ \A n \in 1..N : \E i \in rows : R(i) = n - 1
    BY RanksDiffer
  <1>2. q = [n \in 1..N |-> CHOOSE i \in rows : R(i) = n - 1]
    BY DEF Ranked
  <1> HIDE DEF R, q, N
  <1>3. ASSUME NEW n \in 1..N
        PROVE  q[n] \in rows /\ R(q[n]) = n - 1
    <2>1. \E i \in rows : R(i) = n - 1
      BY <1>1
    <2>2. q[n] = CHOOSE i \in rows : R(i) = n - 1
      BY <1>2
    <2> QED BY <2>1, <2>2
  <1>4. ASSUME NEW i \in rows
        PROVE  \E n \in 1..N : q[n] = i
    <2>1. R(i) + 1 \in 1..N /\ R(i) \in Nat
      BY <1>1
    <2>2. q[R(i) + 1] \in rows /\ R(q[R(i) + 1]) = R(i)
      BY <1>3, <2>1
    <2> QED BY <1>1, <2>1, <2>2
  <1>5. DOMAIN q = 1..N /\ q = [n \in 1..N |-> q[n]]
    BY <1>2
  <1> QED BY <1>1, <1>3, <1>4, <1>5 DEF q, N

-----------------------------------------------------------------------------
(* The inductive invariant of the device view *)

Inputs == Expressions \cup {"invalid"}
Orders == {"up", "down"}
SimpleView == [filter : Inputs, row : {0, 1}]
SimpleViews == [SimpleRoutes -> SimpleView]
Frames == [route : Places, picked : Nat, draft : Expressions, applied : Expressions, order : Orders]
ScreenFields == {"devices", "tagged", "compliant", "generation", "reads", "now", "draft", "applied", "order", "picked",
                 "cache", "simple", "frames", "cursor", "daemon", "profile", "wanted"}

\* A screen: each device once, the text of every filter is the one applied.
IsShown(s) ==
    /\ DOMAIN s = ScreenFields
    /\ IsFleet(s.devices)
    /\ s.generation \in Nat /\ s.reads \in Nat /\ s.now \in Nat /\ s.picked \in Nat
    /\ s.applied \in Expressions /\ s.draft = s.applied /\ s.order \in Orders
    /\ s.simple \in SimpleViews
    /\ s.frames \in Seq(Frames) /\ \A i \in DOMAIN s.frames : s.frames[i].draft = s.frames[i].applied
    /\ s.cursor \in DOMAIN s.frames
    /\ Len(s.frames) <= HistorySize
    /\ s.daemon \in BOOLEAN /\ s.profile \in BOOLEAN
    /\ s.wanted \in {"none", "users"}

\* Only the list of profiles waits for a profile's probe to go on.
WantedFits(s) == s.wanted # "none" => Route(s) = "profiles"

\* The key a filter, an order and a time give with this generation of the list.
KeyOf(g, r, n, a, o) == <<g, r, n, a, o>>
SeenWith(s, a, o, n) == [s EXCEPT !.applied = a, !.order = o, !.now = n]

CacheOf(s, g, r, n, a, o) ==
    /\ s.cache = [key |-> KeyOf(g, r, n, a, o), rows |-> s.cache.rows]
    /\ g <= s.generation
    /\ g = s.generation => s.cache.rows = VisibleFor(SeenWith(s, a, o, n))

\* The cache is empty, of an older list, or right for what its key says.
CacheTrue(s) ==
    \/ s.cache = [key |-> <<>>, rows |-> <<>>]
    \/ \E g \in Nat, r \in Nat, n \in Int, a \in Expressions, o \in Orders : CacheOf(s, g, r, n, a, o)

\* A visible device is selected while there is one, the clock's filter apart.
HasPick(s) == IF VisibleDevices(s) = {} THEN s.picked = Unpicked ELSE s.picked \in VisibleDevices(s)
PickFits(s) == s.applied # "recent" => HasPick(s)

\* What the filter line would give back is of the route it is open on.
LineFits(line, s) ==
    \/ line = NoFilterLine
    \/ /\ DOMAIN line = {"open", "input", "draft", "applied", "picked", "collection", "profile"}
       /\ line.open = TRUE /\ line.input \in Inputs /\ line.draft \in Inputs /\ line.applied \in Expressions
       /\ line.picked \in Nat /\ line.collection \in {0, 1} /\ line.profile \in {0, 1}
       /\ Route(s) \notin SimpleRoutes => line.draft = line.applied

OpenedFits(o, line, s) ==
    o.known =>
      /\ line # NoFilterLine
      /\ o.simple \in SimpleViews
      /\ Route(s) \in SimpleRoutes =>
            /\ s.draft = o.draft /\ s.applied = o.applied
            /\ line.draft = o.simple[Route(s)].filter
            /\ (IF Route(s) = "users" THEN line.collection ELSE line.profile) = o.simple[Route(s)].row
            /\ \A r \in SimpleRoutes \ {Route(s)} : s.simple[r] = o.simple[r]
      /\ Route(s) \notin SimpleRoutes =>
            /\ s.simple = o.simple
            /\ line.draft = o.draft /\ line.applied = o.applied /\ line.picked = o.picked

\* The view left is still where it was left.
BehindFits(b, s) == b.at # 0 => b.at \in DOMAIN s.frames \ {s.cursor} /\ b.frame = s.frames[b.at]

IsRight(s) == IsShown(s) /\ WantedFits(s) /\ CacheTrue(s) /\ PickFits(s)

ViewInv ==
    /\ IsLeeway(leeway) /\ IsRight(screen)
    /\ LineFits(filterLine, screen) /\ OpenedFits(asOpened, filterLine, screen) /\ BehindFits(behind, screen)

\* t is s but for these fields.
SameBut(t, s, fields) == DOMAIN t = DOMAIN s /\ \A f \in DOMAIN s \ fields : t[f] = s[f]

-----------------------------------------------------------------------------
(* What is visible *)

\* What is visible depends on the list, what its filter asks and, for the
\* filter of the clock alone, the clock; the rows on the order too.
LEMMA VisibleDepends ==
    ASSUME NEW s, NEW t, t.devices = s.devices, t.tagged = s.tagged, t.compliant = s.compliant,
           t.applied = s.applied, s.applied = "recent" => t.now = s.now
    PROVE  /\ VisibleDevices(t) = VisibleDevices(s)
           /\ t.order = s.order => VisibleFor(t) = VisibleFor(s)
PROOF
  <1>1. \A d : Matches(t, d) = Matches(s, d)
    BY DEF Matches
  <1>2. {i \in DOMAIN t.devices : Matches(t, t.devices[i])} = {i \in DOMAIN s.devices : Matches(s, s.devices[i])}
    BY <1>1
  <1> QED BY <1>2 DEF VisibleDevices, VisibleFor

\* The devices at the visible rows are the visible devices.
LEMMA ShownFacts ==
    ASSUME NEW s, IsFleet(s.devices)
    PROVE  LET shown == DevicesAt(s, VisibleFor(s)) IN
           /\ \E n \in Nat : DOMAIN shown = 1..n /\ shown = [i \in 1..n |-> shown[i]]
           /\ \A n \in DOMAIN shown : shown[n] \in VisibleDevices(s)
           /\ \A d \in VisibleDevices(s) : \E n \in DOMAIN shown : shown[n] = d
           /\ VisibleDevices(s) \subseteq Nat \ {Unpicked}
PROOF
  <1> DEFINE rows == {i \in DOMAIN s.devices : Matches(s, s.devices[i])}
             q == VisibleFor(s)
             shown == DevicesAt(s, q)
  <1>1. rows \in SUBSET DOMAIN s.devices /\ q = Ranked(s.devices, s.order, rows)
    BY DEF VisibleFor
  <1>2. \A i \in rows : s.devices[i] \in VisibleDevices(s)
    BY DEF VisibleDevices
  <1>3. \A d \in VisibleDevices(s) : \E i \in rows : s.devices[i] = d
    BY DEF VisibleDevices
  <1>4. \A i \in DOMAIN s.devices : s.devices[i] \in Nat \ {Unpicked}
    BY DEF IsFleet
  <1> HIDE DEF rows, q
  <1>5. /\ Cardinality(rows) \in Nat
        /\ DOMAIN q = 1..Cardinality(rows)
        /\ \A n \in 1..Cardinality(rows) : q[n] \in rows
        /\ \A i \in rows : \E n \in 1..Cardinality(rows) : q[n] = i
    BY <1>1, RankedRows
  <1>6. shown = [i \in 1..Cardinality(rows) |-> IF q[i] \in DOMAIN s.devices THEN s.devices[q[i]] ELSE Unpicked]
    BY <1>5 DEF DevicesAt
  <1>7. \A n \in 1..Cardinality(rows) : shown[n] = s.devices[q[n]]
    BY <1>1, <1>5, <1>6
  <1>8. DOMAIN shown = 1..Cardinality(rows) /\ shown = [i \in 1..Cardinality(rows) |-> shown[i]]
    BY <1>6
  <1> HIDE DEF shown
  <1>9. \A n \in DOMAIN shown : shown[n] \in VisibleDevices(s)
    BY <1>2, <1>5, <1>7, <1>8
  <1>10. \A d \in VisibleDevices(s) : \E n \in DOMAIN shown : shown[n] = d
    BY <1>3, <1>5, <1>7, <1>8
  <1>11. VisibleDevices(s) \subseteq Nat \ {Unpicked}
    BY <1>1, <1>3, <1>4
  <1> QED BY <1>5, <1>8, <1>9, <1>10, <1>11 DEF q, shown

\* A place in a list of devices is a position, whatever is looked for.
LEMMA PlaceIsOne ==
    ASSUME NEW d, NEW list, NEW n \in Nat, DOMAIN list = 1..n
    PROVE  PlaceIn(d, list) \in Nat \ {0}
BY DEF PlaceIn

\* What is nearest to a position is of the list, while it has anything.
LEMMA NearestFacts ==
    ASSUME NEW list, NEW n \in Nat, list = [i \in 1..n |-> list[i]], NEW at \in Nat \ {0}
    PROVE  /\ n = 0 => Nearest(list, at) = Unpicked
           /\ n # 0 => \E i \in DOMAIN list : Nearest(list, at) = list[i]
PROOF
  <1>1. list \in Seq({list[i] : i \in 1..n}) /\ Len(list) = n /\ DOMAIN list = 1..n
    OBVIOUS
  <1>2. list = <<>> <=> n = 0
    BY <1>1
  <1>3. n # 0 => (IF at > Len(list) THEN Len(list) ELSE at) \in DOMAIN list
    BY <1>1
  <1> QED BY <1>2, <1>3 DEF Nearest

-----------------------------------------------------------------------------
(* The cache and the selection *)

\* What is visible with what a screen has is what it shows.
LEMMA SeenAsIs ==
    ASSUME NEW s, IsShown(s), NEW n \in Int, s.applied = "recent" => n = s.now
    PROVE  VisibleFor(SeenWith(s, s.applied, s.order, n)) = VisibleFor(s)
PROOF
  <1> DEFINE t == SeenWith(s, s.applied, s.order, n)
  <1>1. /\ t.devices = s.devices /\ t.tagged = s.tagged /\ t.compliant = s.compliant
        /\ t.applied = s.applied /\ t.order = s.order /\ t.now = n
    BY DEF SeenWith, IsShown, ScreenFields
  <1> HIDE DEF t
  <1>2. VisibleFor(t) = VisibleFor(s)
    BY <1>1, VisibleDepends
  <1> QED BY <1>2 DEF t

\* A cache is not made untrue by what is neither of the list nor of what is
\* said of its devices, and a new generation makes every older one invalid.
LEMMA CacheStays ==
    ASSUME NEW s, NEW t, IsShown(s), IsShown(t), CacheTrue(s), t.cache = s.cache, s.generation <= t.generation,
           t.generation = s.generation =>
               t.devices = s.devices /\ t.tagged = s.tagged /\ t.compliant = s.compliant
    PROVE  CacheTrue(t)
PROOF
  <1>1. CASE s.cache = [key |-> <<>>, rows |-> <<>>]
    BY <1>1 DEF CacheTrue
  <1>2. CASE \E g \in Nat, r \in Nat, n \in Int, a \in Expressions, o \in Orders : CacheOf(s, g, r, n, a, o)
    <2>1. PICK g \in Nat, r \in Nat, n \in Int, a \in Expressions, o \in Orders : CacheOf(s, g, r, n, a, o)
      BY <1>2
    <2>2. g <= t.generation
      BY <2>1 DEF IsShown, CacheOf
    <2>3. ASSUME g = t.generation
          PROVE  t.cache.rows = VisibleFor(SeenWith(t, a, o, n))
      <3> DEFINE u == SeenWith(s, a, o, n)
                 v == SeenWith(t, a, o, n)
      <3>1. t.generation = s.generation
        BY <2>1, <2>3 DEF IsShown, CacheOf
      <3>2. /\ v.devices = u.devices /\ v.tagged = u.tagged /\ v.compliant = u.compliant
            /\ v.applied = u.applied /\ v.order = u.order /\ v.now = u.now
        BY <3>1 DEF SeenWith, IsShown, ScreenFields
      <3> HIDE DEF u, v
      <3>3. VisibleFor(v) = VisibleFor(u)
        BY <3>2, VisibleDepends
      <3> QED BY <2>1, <2>3, <3>1, <3>3 DEF u, v, CacheOf
    <2>4. CacheOf(t, g, r, n, a, o)
      BY <2>1, <2>2, <2>3 DEF CacheOf
    <2> QED BY <2>4 DEF CacheTrue
  <1> QED BY <1>1, <1>2 DEF CacheTrue

\* The rows of a valid cache are those of the list.
LEMMA CacheHolds ==
    ASSUME NEW s, IsShown(s), CacheTrue(s), s.cache.key = CacheKey(s)
    PROVE  s.cache.rows = VisibleFor(s)
PROOF
  <1> DEFINE clock == IF s.applied = "recent" THEN s.now ELSE -1
  <1>1. s.cache.key = KeyOf(s.generation, s.reads, clock, s.applied, s.order)
    BY DEF CacheKey, KeyOf
  <1>2. s.cache # [key |-> <<>>, rows |-> <<>>]
    BY <1>1 DEF KeyOf
  <1>3. PICK g \in Nat, r \in Nat, n \in Int, a \in Expressions, o \in Orders : CacheOf(s, g, r, n, a, o)
    BY <1>2 DEF CacheTrue
  <1>4. KeyOf(g, r, n, a, o) = KeyOf(s.generation, s.reads, clock, s.applied, s.order)
    BY <1>1, <1>3 DEF CacheOf
  <1>5. g = s.generation /\ n = clock /\ a = s.applied /\ o = s.order
    BY <1>4 DEF KeyOf
  <1>6. VisibleFor(SeenWith(s, s.applied, s.order, n)) = VisibleFor(s)
    BY <1>5, SeenAsIs
  <1> QED BY <1>3, <1>5, <1>6 DEF CacheOf

\* Looking at the rows changes the cache and nothing else, and leaves it valid.
LEMMA LookedFacts ==
    ASSUME NEW s, IsShown(s), CacheTrue(s)
    PROVE  /\ SameBut(Looked(s), s, {"cache"})
           /\ IsShown(Looked(s)) /\ CacheTrue(Looked(s))
           /\ Looked(s).cache.rows = VisibleFor(s)
PROOF
  <1> DEFINE clock == IF s.applied = "recent" THEN s.now ELSE -1
             new == [key |-> CacheKey(s), rows |-> VisibleFor(s)]
  <1>1. CASE s.cache.key = CacheKey(s)
    BY <1>1, CacheHolds DEF Looked, SameBut
  <1>2. CASE s.cache.key # CacheKey(s)
    <2> DEFINE t == [s EXCEPT !.cache = new]
    <2>1. Looked(s) = t
      BY <1>2 DEF Looked
    <2>2. SameBut(t, s, {"cache"}) /\ t.cache = new
      BY DEF SameBut, IsShown, ScreenFields
    <2> HIDE DEF t
    <2>3. IsShown(t)
      BY <2>2 DEF SameBut, IsShown, ScreenFields
    <2>4. new.rows = VisibleFor(s) /\ clock \in Int
      BY DEF IsShown
    <2>5. VisibleFor(SeenWith(t, t.applied, t.order, clock)) = VisibleFor(s)
      <3>1. /\ t.devices = s.devices /\ t.tagged = s.tagged /\ t.compliant = s.compliant
            /\ t.applied = s.applied /\ t.order = s.order /\ t.now = s.now
        BY <2>2 DEF SameBut, IsShown, ScreenFields
      <3>2. VisibleFor(t) = VisibleFor(s)
        BY <3>1, VisibleDepends
      <3>3. VisibleFor(SeenWith(t, t.applied, t.order, clock)) = VisibleFor(t)
        BY <2>3, <2>4, <3>1, SeenAsIs
      <3> QED BY <3>2, <3>3
    <2>6. /\ t.generation = s.generation /\ t.applied = s.applied /\ t.order = s.order
          /\ t.generation \in Nat /\ s.reads \in Nat /\ t.applied \in Expressions /\ t.order \in Orders
      BY <2>2, <2>3 DEF SameBut, IsShown, ScreenFields
    <2>7. t.cache = [key |-> KeyOf(t.generation, s.reads, clock, t.applied, t.order), rows |-> t.cache.rows]
      BY <2>2, <2>6 DEF KeyOf, CacheKey
    <2>8. t.cache.rows = VisibleFor(SeenWith(t, t.applied, t.order, clock)) /\ t.generation <= t.generation
      BY <2>2, <2>5, <2>6
    <2>9. CacheOf(t, t.generation, s.reads, clock, t.applied, t.order)
      BY <2>7, <2>8 DEF CacheOf
    <2>10. CacheTrue(t)
      BY <2>4, <2>6, <2>9 DEF CacheTrue
    <2> QED BY <2>1, <2>2, <2>3, <2>4, <2>10
  <1> QED BY <1>1, <1>2

\* The selection is kept while its row is visible, and is otherwise of the row
\* in its place.
LEMMA ReconciledFacts ==
    ASSUME NEW s, IsShown(s), CacheTrue(s)
    PROVE  LET t == ReconcileSelection(s) IN
           /\ SameBut(t, s, {"cache", "picked"})
           /\ IsShown(t) /\ CacheTrue(t) /\ HasPick(t)
           /\ VisibleDevices(t) = VisibleDevices(s)
           /\ KeepsPick(s, t)
PROOF
  <1> DEFINE old == DevicesAt(s, VisibleFor(s))
             looked == Looked(s)
             shown == DevicesAt(s, looked.cache.rows)
             at == PlaceIn(s.picked, old)
             t == ReconcileSelection(s)
  <1>1. /\ SameBut(looked, s, {"cache"}) /\ IsShown(looked) /\ CacheTrue(looked)
        /\ shown = old
    BY LookedFacts
  <1>2. t = IF s.picked # Unpicked /\ \E i \in DOMAIN shown : shown[i] = s.picked THEN looked
            ELSE [looked EXCEPT !.picked = Nearest(shown, at)]
    BY DEF ReconcileSelection
  <1>3. IsFleet(s.devices)
    BY DEF IsShown
  <1>4. PICK n \in Nat : DOMAIN old = 1..n /\ old = [i \in 1..n |-> old[i]]
    BY <1>3, ShownFacts
  <1>5. /\ \A i \in DOMAIN old : old[i] \in VisibleDevices(s)
        /\ \A d \in VisibleDevices(s) : \E i \in DOMAIN old : old[i] = d
        /\ VisibleDevices(s) \subseteq Nat \ {Unpicked}
    BY <1>3, ShownFacts
  <1>6. at \in Nat \ {0}
    BY <1>4, PlaceIsOne
  <1> HIDE DEF old, at, looked, shown
  <1>7. /\ n = 0 => Nearest(old, at) = Unpicked
        /\ n # 0 => \E i \in DOMAIN old : Nearest(old, at) = old[i]
    BY <1>4, <1>6, NearestFacts
  <1>8. n = 0 <=> VisibleDevices(s) = {}
    BY <1>4, <1>5
  <1>9. IF VisibleDevices(s) = {} THEN Nearest(old, at) = Unpicked ELSE Nearest(old, at) \in VisibleDevices(s)
    BY <1>5, <1>7, <1>8
  <1>10. Nearest(old, at) \in Nat
    BY <1>5, <1>9 DEF Unpicked
  <1>11. SameBut(t, looked, {"picked"})
    BY <1>1, <1>2 DEF SameBut, IsShown, ScreenFields
  <1>12. t.picked = IF s.picked # Unpicked /\ \E i \in DOMAIN shown : shown[i] = s.picked THEN s.picked ELSE Nearest(old, at)
    BY <1>1, <1>2 DEF SameBut, IsShown, ScreenFields
  <1> HIDE DEF t
  <1>13. SameBut(t, s, {"cache", "picked"})
    BY <1>1, <1>11 DEF SameBut
  <1>14. t.picked \in Nat
    BY <1>10, <1>12 DEF IsShown
  <1>15. IsShown(t)
    BY <1>13, <1>14 DEF SameBut, IsShown, ScreenFields
  <1>16. t.cache = looked.cache /\ looked.generation = t.generation
         /\ t.devices = looked.devices /\ t.tagged = looked.tagged /\ t.compliant = looked.compliant
    BY <1>1, <1>11 DEF SameBut, IsShown, ScreenFields
  <1>17. CacheTrue(t)
    <2>1. looked.generation <= t.generation
      BY <1>16, <1>15 DEF IsShown
    <2> QED BY <1>1, <1>15, <1>16, <2>1, CacheStays
  <1>18. VisibleDevices(t) = VisibleDevices(s)
    <2>1. /\ t.devices = s.devices /\ t.tagged = s.tagged /\ t.compliant = s.compliant
          /\ t.applied = s.applied /\ t.now = s.now
      BY <1>13 DEF SameBut, IsShown, ScreenFields
    <2> QED BY <2>1, VisibleDepends
  <1>19. (s.picked # Unpicked /\ \E i \in DOMAIN shown : shown[i] = s.picked) <=> s.picked \in VisibleDevices(s)
    BY <1>1, <1>5
  <1>20. HasPick(t) /\ KeepsPick(s, t)
    BY <1>9, <1>12, <1>18, <1>19 DEF HasPick, KeepsPick
  <1> QED BY <1>13, <1>15, <1>17, <1>18, <1>20 DEF t

\* Against a list the selection is kept while the list has it, and is
\* otherwise one of the list.
LEMMA ReconciledWithFacts ==
    ASSUME NEW s, IsShown(s), NEW list, IsFleet(list)
    PROVE  LET t == ReconcileWith(s, list) IN
           /\ SameBut(t, s, {"picked"}) /\ t.picked \in Nat
           /\ (\E i \in DOMAIN list : list[i] = s.picked) => t.picked = s.picked
PROOF
  <1> DEFINE old == DevicesAt(s, VisibleFor(s))
             at == PlaceIn(s.picked, old)
             t == ReconcileWith(s, list)
  <1>1. IsFleet(s.devices) /\ s.picked \in Nat
    BY DEF IsShown
  <1>2. PICK n \in Nat : DOMAIN old = 1..n
    BY <1>1, ShownFacts
  <1>3. at \in Nat \ {0}
    BY <1>2, PlaceIsOne
  <1> HIDE DEF old, at
  <1>4. Len(list) \in Nat /\ DOMAIN list = 1..Len(list) /\ list = [i \in 1..Len(list) |-> list[i]]
        /\ \A i \in DOMAIN list : list[i] \in Nat
    BY DEF IsFleet, Unpicked
  <1>5. Nearest(list, at) \in Nat
    <2>1. /\ Len(list) = 0 => Nearest(list, at) = Unpicked
          /\ Len(list) # 0 => \E i \in DOMAIN list : Nearest(list, at) = list[i]
      BY <1>3, <1>4, NearestFacts
    <2> QED BY <1>4, <2>1 DEF Unpicked
  <1>6. t = IF \E i \in DOMAIN list : list[i] = s.picked THEN s ELSE [s EXCEPT !.picked = Nearest(list, at)]
    BY DEF ReconcileWith, old, at
  <1> QED BY <1>1, <1>5, <1>6 DEF SameBut, IsShown, ScreenFields

\* A list that is shown, whichever, with what is said of its devices: its
\* generation is new, and the selection is kept if it is visible in it.
LEMMA DisplayedFacts ==
    ASSUME NEW s, IsShown(s), CacheTrue(s), NEW list, IsFleet(list), NEW fields
    PROVE  LET t == DisplayDevices(s, list, fields) IN
           /\ SameBut(t, s, {"devices", "tagged", "compliant", "generation", "cache", "picked"})
           /\ IsShown(t) /\ CacheTrue(t) /\ HasPick(t)
           /\ t.generation = s.generation + 1
           /\ KeepsPick(s, t)
PROOF
  <1> DEFINE data == [s EXCEPT !.compliant = fields.compliant]
             with == ReconcileWith(data, list)
             new == [with EXCEPT !.devices = list, !.tagged = fields.tagged, !.generation = @ + 1]
             t == ReconcileSelection(new)
  <1>1. DisplayDevices(s, list, fields) = t
    BY DEF DisplayDevices
  <1>2. SameBut(data, s, {"compliant"})
    BY DEF SameBut, IsShown, ScreenFields
  <1> HIDE DEF data
  <1>3. IsShown(data)
    BY <1>2 DEF SameBut, IsShown, ScreenFields
  <1>4. /\ SameBut(with, data, {"picked"}) /\ with.picked \in Nat
        /\ (\E i \in DOMAIN list : list[i] = data.picked) => with.picked = data.picked
    BY <1>3, ReconciledWithFacts
  <1> HIDE DEF with
  <1>5. SameBut(with, s, {"compliant", "picked"}) /\ data.picked = s.picked
    BY <1>2, <1>4 DEF SameBut, IsShown, ScreenFields
  <1>6. SameBut(new, with, {"devices", "tagged", "generation"}) /\ new.devices = list /\ new.generation = with.generation + 1
    BY <1>5 DEF SameBut, IsShown, ScreenFields
  <1> HIDE DEF new
  <1>7. SameBut(new, s, {"devices", "tagged", "compliant", "generation", "picked"}) /\ new.picked = with.picked
        /\ new.generation = s.generation + 1
    BY <1>5, <1>6 DEF SameBut, IsShown, ScreenFields
  <1>8. IsShown(new)
    BY <1>4, <1>6, <1>7 DEF SameBut, IsShown, ScreenFields
  <1>9. CacheTrue(new)
    <2>1. new.cache = s.cache /\ s.generation <= new.generation /\ new.generation # s.generation
      BY <1>7 DEF SameBut, IsShown, ScreenFields
    <2> QED BY <1>8, <2>1, CacheStays
  <1>10. /\ SameBut(t, new, {"cache", "picked"})
         /\ IsShown(t) /\ CacheTrue(t) /\ HasPick(t)
         /\ VisibleDevices(t) = VisibleDevices(new) /\ KeepsPick(new, t)
    BY <1>8, <1>9, ReconciledFacts
  <1> HIDE DEF t
  <1>11. /\ SameBut(t, s, {"devices", "tagged", "compliant", "generation", "cache", "picked"})
         /\ t.generation = s.generation + 1
    BY <1>7, <1>10 DEF SameBut, IsShown, ScreenFields
  <1>12. \A d \in VisibleDevices(t) : \E i \in DOMAIN list : list[i] = d
    BY <1>6, <1>10 DEF VisibleDevices
  <1>13. KeepsPick(s, t)
    BY <1>4, <1>5, <1>7, <1>10, <1>12 DEF KeepsPick
  <1> QED BY <1>1, <1>10, <1>11, <1>13

-----------------------------------------------------------------------------
(* The history of views *)

\* A frame of a view whose filter's text is the one applied.
IsFrame(f) == f \in Frames /\ f.draft = f.applied

\* A screen with its frames, whatever else it is.
LEMMA FramesOf ==
    ASSUME NEW s, IsShown(s)
    PROVE  /\ s.frames \in Seq(Frames) /\ Len(s.frames) \in Nat /\ DOMAIN s.frames = 1..Len(s.frames)
           /\ s.cursor \in 1..Len(s.frames)
           /\ \A i \in 1..Len(s.frames) : IsFrame(s.frames[i])
           /\ Route(s) = s.frames[s.cursor].route /\ Route(s) \in Places
PROOF
  <1>1. /\ s.frames \in Seq(Frames) /\ Len(s.frames) \in Nat /\ DOMAIN s.frames = 1..Len(s.frames)
        /\ s.cursor \in 1..Len(s.frames)
    BY DEF IsShown
  <1>2. \A i \in 1..Len(s.frames) : IsFrame(s.frames[i])
    BY <1>1 DEF IsShown, IsFrame
  <1>3. \A f : IsFrame(f) => f.route \in Places
    BY DEF IsFrame, Frames
  <1> QED BY <1>1, <1>2, <1>3 DEF Route

LEMMA FramesAreFrames ==
    /\ \A route \in Places : IsFrame(NewFrame(route)) /\ NewFrame(route).route = route
    /\ \A s : IsShown(s) => IsFrame(CurrentFrame(s)) /\ CurrentFrame(s).route = Route(s)
PROOF
  <1>1. \A route \in Places : IsFrame(NewFrame(route)) /\ NewFrame(route).route = route
    BY DEF IsFrame, NewFrame, Frames, Unpicked, Expressions, Orders
  <1>2. ASSUME NEW s, IsShown(s)
        PROVE  IsFrame(CurrentFrame(s)) /\ CurrentFrame(s).route = Route(s)
    <2>1. Route(s) \in Places
      BY <1>2, FramesOf
    <2>2. s.picked \in Nat /\ s.applied \in Expressions /\ s.draft = s.applied /\ s.order \in Orders
      BY <1>2 DEF IsShown
    <2>3. CASE Route(s) = "devices"
      BY <2>1, <2>2, <2>3 DEF CurrentFrame, IsFrame, Frames
    <2>4. CASE Route(s) # "devices"
      <3>1. IsFrame(NewFrame(Route(s)))
        BY <1>1, <2>1
      <3>2. CurrentFrame(s) = [NewFrame(Route(s)) EXCEPT !.order = s.order]
        BY <2>4 DEF CurrentFrame
      <3> QED BY <2>1, <2>2, <3>1, <3>2 DEF IsFrame, Frames, NewFrame
    <2> QED BY <2>3, <2>4
  <1> QED BY <1>1, <1>2

\* Capturing the view: its frame, and nothing else.
LEMMA CapturedFacts ==
    ASSUME NEW s, IsShown(s)
    PROVE  LET t == Captured(s) IN
           /\ SameBut(t, s, {"frames"}) /\ IsShown(t) /\ Route(t) = Route(s)
           /\ Len(t.frames) = Len(s.frames) /\ DOMAIN t.frames = DOMAIN s.frames
           /\ t.frames[t.cursor] = CurrentFrame(s)
           /\ \A i \in DOMAIN s.frames \ {s.cursor} : t.frames[i] = s.frames[i]
           /\ CacheTrue(s) => CacheTrue(t)
           /\ VisibleDevices(t) = VisibleDevices(s)
PROOF
  <1> DEFINE frame == CurrentFrame(s)
             frames == [s.frames EXCEPT ![s.cursor] = frame]
             t == [s EXCEPT !.frames = frames]
  <1>1. Captured(s) = t
    BY DEF Captured
  <1>2. IsFrame(frame) /\ frame.route = Route(s)
    BY FramesAreFrames
  <1> HIDE DEF frame
  <1>3. /\ s.frames \in Seq(Frames) /\ Len(s.frames) \in Nat /\ DOMAIN s.frames = 1..Len(s.frames)
        /\ s.cursor \in 1..Len(s.frames)
        /\ \A i \in 1..Len(s.frames) : IsFrame(s.frames[i])
    BY FramesOf
  <1>4. /\ frames \in Seq(Frames) /\ Len(frames) = Len(s.frames) /\ DOMAIN frames = 1..Len(s.frames)
        /\ frames[s.cursor] = frame
        /\ \A i \in DOMAIN s.frames \ {s.cursor} : frames[i] = s.frames[i]
    BY <1>2, <1>3, ExceptSeq DEF IsFrame
  <1> HIDE DEF frames
  <1>5. SameBut(t, s, {"frames"}) /\ t.frames = frames
    BY DEF SameBut, IsShown, ScreenFields
  <1> HIDE DEF t
  <1>6. t.cursor = s.cursor
    BY <1>5 DEF SameBut, IsShown, ScreenFields
  <1>7. \A i \in DOMAIN frames : frames[i].draft = frames[i].applied
    BY <1>2, <1>3, <1>4 DEF IsFrame
  <1>8. IsShown(t)
    BY <1>3, <1>4, <1>5, <1>7 DEF SameBut, IsShown, ScreenFields
  <1>9. Route(t) = Route(s)
    BY <1>2, <1>4, <1>5, <1>6 DEF Route
  <1>10. /\ t.devices = s.devices /\ t.tagged = s.tagged /\ t.compliant = s.compliant
         /\ t.applied = s.applied /\ t.now = s.now /\ t.cache = s.cache /\ t.generation = s.generation
    BY <1>5 DEF SameBut, IsShown, ScreenFields
  <1>11. VisibleDevices(t) = VisibleDevices(s)
    BY <1>10, VisibleDepends
  <1>12. CacheTrue(s) => CacheTrue(t)
    <2>1. s.generation <= t.generation
      BY <1>10 DEF IsShown
    <2> QED BY <1>8, <1>10, <2>1, CacheStays
  <1> QED BY <1>1, <1>3, <1>4, <1>5, <1>6, <1>8, <1>9, <1>11, <1>12 DEF frame

\* Of what the view is told its frame.
LEMMA CurrentFrameOf ==
    ASSUME NEW s, NEW t, t.frames = s.frames, t.cursor = s.cursor, t.draft = s.draft, t.applied = s.applied, t.order = s.order,
           Route(s) = "devices" => t.picked = s.picked
    PROVE  CurrentFrame(t) = CurrentFrame(s) /\ Route(t) = Route(s)
BY DEF CurrentFrame, Route

\* A frame appended is the last and the current one; the one before it, if the
\* history still has one, is the one that was current.
LEMMA AppendedFacts ==
    ASSUME HistorySize \in Nat \ {0}, NEW s, IsShown(s), NEW frame, IsFrame(frame)
    PROVE  LET t == Appended(s, frame) IN
           /\ SameBut(t, s, {"frames", "cursor"}) /\ IsShown(t)
           /\ t.frames[t.cursor] = frame /\ Route(t) = frame.route
           /\ t.cursor # 1 => t.frames[t.cursor - 1] = s.frames[s.cursor]
           /\ CacheTrue(s) => CacheTrue(t)
           /\ VisibleDevices(t) = VisibleDevices(s)
PROOF
  <1> DEFINE earlier == SubSeq(s.frames, 1, s.cursor)
             longer == Append(earlier, frame)
             bounded == IF Len(longer) > HistorySize THEN Tail(longer) ELSE longer
             t == [s EXCEPT !.frames = bounded, !.cursor = Len(bounded)]
  <1>1. Appended(s, frame) = t
    BY DEF Appended
  <1>2. /\ s.frames \in Seq(Frames) /\ Len(s.frames) \in Nat /\ DOMAIN s.frames = 1..Len(s.frames)
        /\ s.cursor \in 1..Len(s.frames) /\ Len(s.frames) <= HistorySize
        /\ \A i \in 1..Len(s.frames) : IsFrame(s.frames[i])
    BY FramesOf DEF IsShown
  <1>3. \A i \in 1..s.cursor : s.frames[i] \in Frames
    BY <1>2 DEF IsFrame
  <1>4. /\ earlier \in Seq(Frames) /\ Len(earlier) = s.cursor
        /\ \A i \in 1..s.cursor : earlier[i] = s.frames[i]
    <2>1. /\ earlier \in Seq(Frames) /\ Len(earlier) = IF 1 <= s.cursor THEN s.cursor - 1 + 1 ELSE 0
          /\ \A i \in 1..(s.cursor - 1 + 1) : earlier[i] = s.frames[1 + i - 1]
      BY <1>2, <1>3, SubSeqProperties
    <2> QED BY <1>2, <2>1
  <1> HIDE DEF earlier
  <1>5. /\ longer \in Seq(Frames) /\ longer # <<>> /\ Len(longer) = s.cursor + 1
        /\ \A i \in 1..s.cursor : longer[i] = s.frames[i]
        /\ longer[s.cursor + 1] = frame
    BY <1>2, <1>4, AppendProperties DEF IsFrame
  <1> HIDE DEF longer
  <1>15. s.cursor \in Nat \ {0}
    BY <1>2
  <1>16. longer[s.cursor + 1] = frame /\ \A i \in 1..s.cursor : longer[i] = s.frames[i]
    BY <1>5
  <1>6. /\ Tail(longer) \in Seq(Frames) /\ Len(Tail(longer)) = s.cursor
        /\ \A i \in 1..s.cursor : Tail(longer)[i] = longer[i + 1]
    <2>1. /\ Tail(longer) \in Seq(Frames) /\ Len(Tail(longer)) = Len(longer) - 1
          /\ \A i \in 1..Len(Tail(longer)) : Tail(longer)[i] = longer[i + 1]
      BY <1>5, HeadTailProperties
    <2> QED BY <1>2, <1>5, <2>1
  <1>7. /\ bounded \in Seq(Frames) /\ Len(bounded) \in 1..HistorySize /\ DOMAIN bounded = 1..Len(bounded)
        /\ bounded[Len(bounded)] = frame
        /\ Len(bounded) # 1 => bounded[Len(bounded) - 1] = s.frames[s.cursor]
        /\ \A i \in 1..Len(bounded) : IsFrame(bounded[i])
    <2>1. CASE Len(longer) > HistorySize
      <3>1. bounded = Tail(longer)
        BY <2>1
      <3> HIDE DEF bounded
      <3>2. Len(bounded) = s.cursor /\ \A i \in 1..s.cursor : bounded[i] = longer[i + 1]
        BY <1>6, <3>1
      <3>3. bounded[s.cursor] = frame
        BY <1>2, <1>5, <3>2
      <3>4. \A i \in 1..(s.cursor - 1) : bounded[i] = s.frames[i + 1]
        BY <1>2, <1>5, <3>2
      <3>5. s.cursor # 1 => bounded[s.cursor - 1] = s.frames[s.cursor]
        BY <1>2, <3>4
      <3>6. \A i \in 1..s.cursor : IsFrame(bounded[i])
        <4> TAKE i \in 1..s.cursor
        <4>1. CASE i = s.cursor
          BY <3>3, <4>1
        <4>2. CASE i # s.cursor
          BY <1>2, <3>4, <4>2
        <4> QED BY <4>1, <4>2
      <3>7. bounded \in Seq(Frames) /\ DOMAIN bounded = 1..Len(bounded) /\ Len(bounded) \in 1..HistorySize
        BY <1>2, <1>6, <1>15, <3>1, <3>2
      <3> QED BY <3>2, <3>3, <3>5, <3>6, <3>7
    <2>2. CASE ~(Len(longer) > HistorySize)
      <3>1. bounded = longer
        BY <2>2
      <3> HIDE DEF bounded
      <3>2. longer[s.cursor] = s.frames[s.cursor]
        BY <1>15, <1>16
      <3>3. \A i \in 1..(s.cursor + 1) : IsFrame(longer[i])
        <4> TAKE i \in 1..(s.cursor + 1)
        <4>1. CASE i = s.cursor + 1
          BY <1>16, <4>1
        <4>2. CASE i # s.cursor + 1
          BY <1>2, <1>15, <1>16, <4>2
        <4> QED BY <4>1, <4>2
      <3>4. longer \in Seq(Frames) /\ Len(longer) = s.cursor + 1 /\ DOMAIN longer = 1..Len(longer) /\ Len(longer) \in 1..HistorySize
        BY <1>5, <1>15, <2>2
      <3>5. longer[Len(longer)] = frame /\ longer[Len(longer) - 1] = s.frames[s.cursor]
        BY <1>15, <1>16, <3>2, <3>4
      <3> QED BY <3>1, <3>3, <3>4, <3>5
    <2> QED BY <2>1, <2>2
  <1> HIDE DEF bounded
  <1>8. SameBut(t, s, {"frames", "cursor"}) /\ t.frames = bounded /\ t.cursor = Len(bounded)
    BY DEF SameBut, IsShown, ScreenFields
  <1> HIDE DEF t
  <1>9. \A i \in DOMAIN bounded : bounded[i].draft = bounded[i].applied
    BY <1>7 DEF IsFrame
  <1>10. IsShown(t)
    <2>1. DOMAIN t = ScreenFields /\ \A f \in ScreenFields \ {"frames", "cursor"} : t[f] = s[f]
      BY <1>8 DEF SameBut, IsShown
    <2>2. /\ t.devices = s.devices /\ t.generation = s.generation /\ t.reads = s.reads /\ t.now = s.now
          /\ t.picked = s.picked /\ t.applied = s.applied /\ t.draft = s.draft /\ t.order = s.order
          /\ t.simple = s.simple /\ t.daemon = s.daemon /\ t.profile = s.profile /\ t.wanted = s.wanted
      BY <2>1 DEF ScreenFields
    <2>3. /\ t.frames \in Seq(Frames) /\ \A i \in DOMAIN t.frames : t.frames[i].draft = t.frames[i].applied
          /\ t.cursor \in DOMAIN t.frames /\ Len(t.frames) <= HistorySize
      BY <1>7, <1>8, <1>9
    <2> QED BY <2>1, <2>2, <2>3 DEF IsShown
  <1>11. Route(t) = frame.route
    BY <1>7, <1>8 DEF Route
  <1>12. /\ t.devices = s.devices /\ t.tagged = s.tagged /\ t.compliant = s.compliant
         /\ t.applied = s.applied /\ t.now = s.now /\ t.cache = s.cache /\ t.generation = s.generation
    BY <1>8 DEF SameBut, IsShown, ScreenFields
  <1>13. VisibleDevices(t) = VisibleDevices(s)
    BY <1>12, VisibleDepends
  <1>14. CacheTrue(s) => CacheTrue(t)
    <2>1. s.generation <= t.generation
      BY <1>12 DEF IsShown
    <2> QED BY <1>10, <1>12, <2>1, CacheStays
  <1> QED BY <1>1, <1>7, <1>8, <1>10, <1>11, <1>13, <1>14

\* A view of the devices that is restored has its filter and its order, and its
\* selection while it is visible; another view leaves the devices as they are.
LEMMA RestoredFacts ==
    ASSUME NEW s, IsShown(s), CacheTrue(s), PickFits(s), NEW frame, IsFrame(frame), frame.route = Route(s)
    PROVE  LET t == RestoreFrame(s, frame) IN
           /\ SameBut(t, s, {"wanted", "draft", "applied", "order", "picked", "cache"})
           /\ IsRight(t) /\ Route(t) = Route(s)
           /\ Route(s) = "devices" =>
                 t.draft = frame.draft /\ t.applied = frame.applied /\ t.order = frame.order /\ KeepsPick(frame, t)
           /\ Route(s) # "devices" => SameBut(t, s, {"wanted"}) /\ VisibleDevices(t) = VisibleDevices(s)
PROOF
  <1> DEFINE kept == [s EXCEPT !.wanted = IF frame.route = "profiles" THEN @ ELSE "none"]
             asked == [kept EXCEPT !.draft = frame.draft, !.applied = frame.applied, !.order = frame.order, !.picked = frame.picked]
             t == RestoreFrame(s, frame)
  <1>1. t = IF frame.route # "devices" THEN kept ELSE ReconcileSelection(asked)
    BY DEF RestoreFrame
  <1>2. SameBut(kept, s, {"wanted"}) /\ kept.wanted = IF frame.route = "profiles" THEN s.wanted ELSE "none"
    BY DEF SameBut, IsShown, ScreenFields
  <1>3. /\ SameBut(asked, kept, {"draft", "applied", "order", "picked"})
        /\ asked.draft = frame.draft /\ asked.applied = frame.applied /\ asked.order = frame.order /\ asked.picked = frame.picked
    BY <1>2 DEF SameBut, IsShown, ScreenFields
  <1> HIDE DEF kept, asked, t
  <1>4. IsShown(kept)
    BY <1>2 DEF SameBut, IsShown, ScreenFields
  <1>5. WantedFits(kept) /\ Route(kept) = Route(s)
    BY <1>2 DEF SameBut, IsShown, ScreenFields, WantedFits, Route
  <1>6. CacheTrue(kept) /\ PickFits(kept) /\ VisibleDevices(kept) = VisibleDevices(s)
    <2>1. /\ kept.devices = s.devices /\ kept.tagged = s.tagged /\ kept.compliant = s.compliant /\ kept.applied = s.applied
          /\ kept.now = s.now /\ kept.cache = s.cache /\ kept.generation = s.generation /\ kept.picked = s.picked
          /\ s.generation <= kept.generation
      BY <1>2 DEF SameBut, IsShown, ScreenFields
    <2>2. VisibleDevices(kept) = VisibleDevices(s)
      BY <2>1, VisibleDepends
    <2>3. CacheTrue(kept)
      BY <1>4, <2>1, CacheStays
    <2> QED BY <2>1, <2>2, <2>3 DEF PickFits, HasPick
  <1>7. CASE Route(s) # "devices"
    <2>1. t = kept
      BY <1>1, <1>7
    <2>2. SameBut(t, s, {"wanted", "draft", "applied", "order", "picked", "cache"})
      BY <1>2, <2>1 DEF SameBut
    <2> QED BY <1>2, <1>4, <1>5, <1>6, <1>7, <2>1, <2>2 DEF IsRight, t
  <1>8. CASE Route(s) = "devices"
    <2>1. t = ReconcileSelection(asked)
      BY <1>1, <1>8
    <2>2. SameBut(asked, s, {"wanted", "draft", "applied", "order", "picked"}) /\ asked.wanted = "none"
      BY <1>2, <1>3, <1>8 DEF SameBut, IsShown, ScreenFields
    <2>3. frame.draft = frame.applied /\ frame.applied \in Expressions /\ frame.order \in Orders /\ frame.picked \in Nat
      BY DEF IsFrame, Frames
    <2>4. IsShown(asked)
      BY <1>3, <2>2, <2>3 DEF SameBut, IsShown, ScreenFields
    <2>5. CacheTrue(asked)
      <3>1. /\ asked.devices = s.devices /\ asked.tagged = s.tagged /\ asked.compliant = s.compliant
            /\ asked.cache = s.cache /\ s.generation <= asked.generation
        BY <2>2 DEF SameBut, IsShown, ScreenFields
      <3> QED BY <2>4, <3>1, CacheStays
    <2>6. /\ SameBut(t, asked, {"cache", "picked"}) /\ IsShown(t) /\ CacheTrue(t) /\ HasPick(t)
          /\ VisibleDevices(t) = VisibleDevices(asked) /\ KeepsPick(asked, t)
      BY <2>1, <2>4, <2>5, ReconciledFacts
    <2>7. SameBut(t, s, {"wanted", "draft", "applied", "order", "picked", "cache"}) /\ t.wanted = "none"
      BY <2>2, <2>6 DEF SameBut, IsShown, ScreenFields
    <2>8. Route(t) = Route(s)
      BY <2>7 DEF SameBut, IsShown, ScreenFields, Route
    <2>9. t.draft = frame.draft /\ t.applied = frame.applied /\ t.order = frame.order
      BY <1>3, <2>2, <2>6 DEF SameBut, IsShown, ScreenFields
    <2>10. KeepsPick(frame, t)
      BY <1>3, <2>6 DEF KeepsPick
    <2> QED BY <1>8, <2>6, <2>7, <2>8, <2>9, <2>10 DEF IsRight, WantedFits, PickFits, t
  <1> QED BY <1>7, <1>8

\* What is neither of the list nor of its filter leaves the selection right.
LEMMA RightStays ==
    ASSUME NEW s, IsShown(s), IsRight(s), NEW t, IsShown(t), SameBut(t, s, {"simple", "reads", "daemon", "profile", "now"})
    PROVE  IsRight(t) /\ Route(t) = Route(s)
PROOF
  <1>1. /\ t.devices = s.devices /\ t.tagged = s.tagged /\ t.compliant = s.compliant /\ t.applied = s.applied
        /\ t.cache = s.cache /\ t.generation = s.generation /\ t.picked = s.picked
        /\ t.wanted = s.wanted /\ t.frames = s.frames /\ t.cursor = s.cursor /\ s.generation <= t.generation
    <2>1. DOMAIN s = ScreenFields /\ s.generation \in Nat
      BY DEF IsShown
    <2>2. \A f \in ScreenFields \ {"simple", "reads", "daemon", "profile", "now"} : t[f] = s[f]
      BY <2>1 DEF SameBut
    <2> QED BY <2>1, <2>2 DEF ScreenFields
  <1>2. CacheTrue(t)
    BY <1>1, CacheStays DEF IsRight
  <1>3. t.applied # "recent" => VisibleDevices(t) = VisibleDevices(s)
    BY <1>1, VisibleDepends
  <1>4. PickFits(t)
    BY <1>1, <1>3 DEF IsRight, PickFits, HasPick
  <1>5. Route(t) = Route(s)
    BY <1>1 DEF Route
  <1> QED BY <1>1, <1>2, <1>4, <1>5 DEF IsRight, WantedFits

\* A filter, an order and a selection that are asked for, reconciled.
LEMMA AskedFacts ==
    ASSUME NEW s, IsShown(s), WantedFits(s), CacheTrue(s), NEW u, SameBut(u, s, {"draft", "applied", "order", "picked"}),
           u.draft = u.applied, u.applied \in Expressions, u.order \in Orders, u.picked \in Nat
    PROVE  LET t == ReconcileSelection(u) IN
           /\ SameBut(t, s, {"draft", "applied", "order", "picked", "cache"})
           /\ t.draft = u.draft /\ t.applied = u.applied /\ t.order = u.order
           /\ IsRight(t) /\ Route(t) = Route(s) /\ KeepsPick(u, t)
PROOF
  <1> DEFINE t == ReconcileSelection(u)
  <1>1. IsShown(u)
    BY DEF SameBut, IsShown, ScreenFields
  <1>2. CacheTrue(u)
    <2>1. /\ u.devices = s.devices /\ u.tagged = s.tagged /\ u.compliant = s.compliant
          /\ u.cache = s.cache /\ s.generation <= u.generation
      BY DEF SameBut, IsShown, ScreenFields
    <2> QED BY <1>1, <2>1, CacheStays
  <1>3. SameBut(t, u, {"cache", "picked"}) /\ IsShown(t) /\ CacheTrue(t) /\ HasPick(t) /\ KeepsPick(u, t)
    BY <1>1, <1>2, ReconciledFacts
  <1> HIDE DEF t
  <1>4. SameBut(t, s, {"draft", "applied", "order", "picked", "cache"})
    BY <1>3 DEF SameBut
  <1>5. t.draft = u.draft /\ t.applied = u.applied /\ t.order = u.order
        /\ t.frames = s.frames /\ t.cursor = s.cursor /\ t.wanted = s.wanted
    BY <1>1, <1>3, <1>4 DEF SameBut, IsShown, ScreenFields
  <1> QED BY <1>3, <1>4, <1>5 DEF IsRight, WantedFits, Route, PickFits, t

\* Another view: it is current, and the one before it is as it was left.
LEMMA NavigatedFacts ==
    ASSUME HistorySize \in Nat \ {0}, NEW s, IsShown(s), CacheTrue(s), PickFits(s), NEW route \in Places, Route(s) # route
    PROVE  LET t == Navigated(s, route) IN
           /\ SameBut(t, s, {"frames", "cursor", "wanted", "draft", "applied", "order", "picked", "cache"})
           /\ IsRight(t) /\ Route(t) = route
           /\ t.cursor # 1 => t.frames[t.cursor - 1] = CurrentFrame(s)
           /\ route # "devices" =>
                 SameBut(t, s, {"frames", "cursor", "wanted"}) /\ VisibleDevices(t) = VisibleDevices(s)
PROOF
  <1> DEFINE kept == Captured(s)
             longer == Appended(kept, NewFrame(route))
             t == RestoreFrame(longer, NewFrame(route))
  <1>1. Navigated(s, route) = t
    BY DEF Navigated
  <1>2. IsFrame(NewFrame(route)) /\ NewFrame(route).route = route
    BY FramesAreFrames
  <1>3. /\ SameBut(kept, s, {"frames"}) /\ IsShown(kept) /\ kept.frames[kept.cursor] = CurrentFrame(s)
        /\ CacheTrue(kept) /\ VisibleDevices(kept) = VisibleDevices(s)
    BY CapturedFacts
  <1> HIDE DEF kept
  <1>4. /\ SameBut(longer, kept, {"frames", "cursor"}) /\ IsShown(longer) /\ Route(longer) = route
        /\ longer.cursor # 1 => longer.frames[longer.cursor - 1] = CurrentFrame(s)
        /\ CacheTrue(longer) /\ VisibleDevices(longer) = VisibleDevices(s)
    BY <1>2, <1>3, AppendedFacts
  <1> HIDE DEF longer
  <1>5. SameBut(longer, s, {"frames", "cursor"}) /\ longer.applied = s.applied /\ longer.picked = s.picked
    BY <1>3, <1>4 DEF SameBut, IsShown, ScreenFields
  <1>6. PickFits(longer)
    BY <1>4, <1>5 DEF PickFits, HasPick
  <1>7. /\ SameBut(t, longer, {"wanted", "draft", "applied", "order", "picked", "cache"})
        /\ IsRight(t) /\ Route(t) = route
        /\ route # "devices" => SameBut(t, longer, {"wanted"}) /\ VisibleDevices(t) = VisibleDevices(longer)
    BY <1>2, <1>4, <1>6, RestoredFacts
  <1> HIDE DEF t
  <1>8. SameBut(t, s, {"frames", "cursor", "wanted", "draft", "applied", "order", "picked", "cache"})
    BY <1>5, <1>7 DEF SameBut
  <1>9. t.frames = longer.frames /\ t.cursor = longer.cursor
    BY <1>4, <1>7 DEF SameBut, IsShown, ScreenFields
  <1>10. route # "devices" => SameBut(t, s, {"frames", "cursor", "wanted"}) /\ VisibleDevices(t) = VisibleDevices(s)
    BY <1>4, <1>5, <1>7 DEF SameBut
  <1> QED BY <1>1, <1>4, <1>7, <1>8, <1>9, <1>10

\* A route that is forced forgets the history.
LEMMA RoutedFacts ==
    ASSUME HistorySize \in Nat \ {0}, NEW s, IsShown(s), CacheTrue(s), PickFits(s), NEW route \in Places
    PROVE  LET t == Routed(s, route) IN
           /\ SameBut(t, s, {"frames", "cursor", "wanted", "draft", "applied", "order", "picked", "cache"})
           /\ IsRight(t) /\ Route(t) = route
           /\ route # "devices" =>
                 SameBut(t, s, {"frames", "cursor", "wanted"}) /\ VisibleDevices(t) = VisibleDevices(s)
PROOF
  <1> DEFINE only == <<NewFrame(route)>>
             one == [s EXCEPT !.frames = only, !.cursor = 1]
             t == RestoreFrame(one, NewFrame(route))
  <1>1. Routed(s, route) = t
    BY DEF Routed
  <1>2. IsFrame(NewFrame(route)) /\ NewFrame(route).route = route
    BY FramesAreFrames
  <1>3. only \in Seq(Frames) /\ Len(only) = 1 /\ DOMAIN only = 1..1 /\ only[1] = NewFrame(route)
    BY <1>2 DEF IsFrame
  <1> HIDE DEF only
  <1>4. SameBut(one, s, {"frames", "cursor"}) /\ one.frames = only /\ one.cursor = 1
    BY DEF SameBut, IsShown, ScreenFields
  <1> HIDE DEF one
  <1>5. \A i \in DOMAIN only : only[i].draft = only[i].applied
    BY <1>2, <1>3 DEF IsFrame
  <1>6. Len(only) <= HistorySize /\ 1 \in DOMAIN only
    BY <1>3
  <1>7. IsShown(one)
    BY <1>3, <1>4, <1>5, <1>6 DEF SameBut, IsShown, ScreenFields
  <1>8. Route(one) = route
    BY <1>2, <1>3, <1>4 DEF Route
  <1>9. /\ one.devices = s.devices /\ one.tagged = s.tagged /\ one.compliant = s.compliant /\ one.applied = s.applied
        /\ one.now = s.now /\ one.cache = s.cache /\ one.generation = s.generation /\ one.picked = s.picked
        /\ s.generation <= one.generation
    BY <1>4 DEF SameBut, IsShown, ScreenFields
  <1>10. CacheTrue(one) /\ VisibleDevices(one) = VisibleDevices(s)
    BY <1>7, <1>9, CacheStays, VisibleDepends
  <1>11. PickFits(one)
    BY <1>9, <1>10 DEF PickFits, HasPick
  <1>12. /\ SameBut(t, one, {"wanted", "draft", "applied", "order", "picked", "cache"})
         /\ IsRight(t) /\ Route(t) = route
         /\ route # "devices" => SameBut(t, one, {"wanted"}) /\ VisibleDevices(t) = VisibleDevices(one)
    BY <1>2, <1>7, <1>8, <1>10, <1>11, RestoredFacts
  <1> HIDE DEF t
  <1> QED BY <1>1, <1>4, <1>10, <1>12 DEF SameBut

-----------------------------------------------------------------------------
(* What comes without the user *)

\* A refresh that is no change of account keeps the selection.
RefreshKeeps == screen'.generation # screen.generation /\ screen'.reads = screen.reads => KeepsPick(screen, screen')

\* The fields a step leaves alone.
LEMMA SameFields ==
    ASSUME NEW s, IsShown(s), NEW fields, NEW t, SameBut(t, s, fields)
    PROVE  \A f \in ScreenFields \ fields : t[f] = s[f]
BY DEF SameBut, IsShown

LEMMA LeewayStays ==
    ASSUME IsLeeway(leeway), DataChanges \/ \E kind \in leeway.kinds : Acts(kind)
    PROVE  IsLeeway(leeway')
PROOF
  <1>1. CASE DataChanges
    <2>1. /\ DOMAIN leeway' = DOMAIN leeway /\ leeway'.acts = leeway.acts /\ leeway'.ticks = leeway.ticks
          /\ leeway'.profile = leeway.profile /\ leeway'.fleets = leeway.fleets
          /\ leeway'.refreshes = leeway.refreshes - 1 /\ leeway.refreshes > 0
      BY <1>1 DEF IsLeeway, DataChanges
    <2> QED BY <2>1 DEF IsLeeway
  <1>2. CASE \E kind \in leeway.kinds : Acts(kind)
    <2>1. leeway' = [leeway EXCEPT !.acts = @ - 1] /\ leeway.acts > 0
      BY <1>2 DEF Acts
    <2>2. /\ DOMAIN leeway' = DOMAIN leeway /\ leeway'.refreshes = leeway.refreshes /\ leeway'.ticks = leeway.ticks
          /\ leeway'.profile = leeway.profile /\ leeway'.fleets = leeway.fleets
          /\ leeway'.acts = leeway.acts - 1
      BY <2>1 DEF IsLeeway
    <2> QED BY <2>1, <2>2 DEF IsLeeway
  <1> QED BY <1>1, <1>2

\* While no line is open there is no screen to give back.
LEMMA ClosedForgets ==
    ASSUME ViewInv, Closed
    PROVE  filterLine = NoFilterLine /\ ~asOpened.known
BY DEF ViewInv, Closed, LineFits, OpenedFits

\* What the histories say stays right while the route, its filters and its
\* frames stay.
LEMMA StaysInv ==
    ASSUME ViewInv, Stays, IsLeeway(leeway'), IsRight(screen'),
           screen'.frames = screen.frames, screen'.cursor = screen.cursor,
           filterLine = NoFilterLine \/
               (screen'.draft = screen.draft /\ screen'.applied = screen.applied /\ screen'.simple = screen.simple)
    PROVE  ViewInv'
PROOF
  <1>1. Route(screen') = Route(screen)
    BY DEF Route
  <1>2. filterLine' = filterLine /\ asOpened' = asOpened /\ behind' = behind
    BY DEF Stays
  <1>3. LineFits(filterLine', screen')
    BY <1>1, <1>2 DEF ViewInv, LineFits
  <1>4. OpenedFits(asOpened', filterLine', screen')
    BY <1>1, <1>2 DEF ViewInv, OpenedFits
  <1>5. BehindFits(behind', screen')
    BY <1>2 DEF ViewInv, BehindFits
  <1> QED BY <1>3, <1>4, <1>5 DEF ViewInv

\* A list that is shown with the route, the filter and the frames there are.
LEMMA DisplayedRight ==
    ASSUME NEW s, IsShown(s), WantedFits(s), CacheTrue(s), NEW list, IsFleet(list), NEW fields
    PROVE  LET t == DisplayDevices(s, list, fields) IN
           /\ IsRight(t) /\ Route(t) = Route(s)
           /\ \A f \in {"reads", "draft", "applied", "order", "simple", "frames", "cursor", "daemon", "profile", "wanted"} : t[f] = s[f]
           /\ t.generation = s.generation + 1
           /\ KeepsPick(s, t)
PROOF
  <1> DEFINE t == DisplayDevices(s, list, fields)
             changed == {"devices", "tagged", "compliant", "generation", "cache", "picked"}
  <1>1. SameBut(t, s, changed) /\ IsShown(t) /\ CacheTrue(t) /\ HasPick(t) /\ t.generation = s.generation + 1 /\ KeepsPick(s, t)
    BY DisplayedFacts
  <1> HIDE DEF t
  <1>2. \A f \in ScreenFields \ changed : t[f] = s[f]
    BY <1>1, SameFields
  <1>3. \A f \in {"reads", "draft", "applied", "order", "simple", "frames", "cursor", "daemon", "profile", "wanted"} : t[f] = s[f]
    BY <1>2 DEF ScreenFields
  <1>4. t.frames = s.frames /\ t.cursor = s.cursor /\ t.wanted = s.wanted
    BY <1>3
  <1>5. Route(t) = Route(s)
    BY <1>4 DEF Route
  <1> QED BY <1>1, <1>3, <1>4, <1>5 DEF IsRight, WantedFits, PickFits, t

\* Only the clock, or the number of the source's reads, has gone on.
LEMMA OnlyCounted ==
    ASSUME NEW s, IsRight(s), NEW reads \in Nat, NEW now \in Nat, NEW t,
           t = [s EXCEPT !.reads = reads] \/ t = [s EXCEPT !.now = now]
    PROVE  IsRight(t) /\ \A f \in ScreenFields \ {"reads", "now"} : t[f] = s[f]
PROOF
  <1>1. IsShown(s)
    BY DEF IsRight
  <1>2. SameBut(t, s, {"reads", "now"}) /\ t.reads \in Nat /\ t.now \in Nat
    BY <1>1 DEF SameBut, IsShown, ScreenFields
  <1>3. IsShown(t)
    BY <1>1, <1>2 DEF SameBut, IsShown, ScreenFields
  <1>4. SameBut(t, s, {"simple", "reads", "daemon", "profile", "now"})
    BY <1>2 DEF SameBut
  <1> QED BY <1>1, <1>2, <1>3, <1>4, RightStays, SameFields

LEMMA CountsKeep ==
    ASSUME ViewInv, SourceReadBegins \/ Ticks
    PROVE  ViewInv' /\ RefreshKeeps
PROOF
  <1>1. screen.reads + 1 \in Nat /\ screen.now + 1 \in Nat /\ IsRight(screen) /\ IsLeeway(leeway)
    BY DEF ViewInv, IsRight, IsShown
  <1>2. screen' = [screen EXCEPT !.reads = screen.reads + 1] \/ screen' = [screen EXCEPT !.now = screen.now + 1]
    BY DEF SourceReadBegins, Ticks
  <1>3. IsRight(screen') /\ \A f \in ScreenFields \ {"reads", "now"} : screen'[f] = screen[f]
    BY <1>1, <1>2, OnlyCounted
  <1>4. IsLeeway(leeway')
    <2>1. CASE SourceReadBegins
      BY <1>1, <2>1, LeewayStays DEF SourceReadBegins
    <2>2. CASE Ticks
      <3>1. leeway' = [leeway EXCEPT !.ticks = @ - 1] /\ leeway.ticks > 0
        BY <2>2 DEF Ticks
      <3>2. /\ DOMAIN leeway' = DOMAIN leeway /\ leeway'.acts = leeway.acts /\ leeway'.refreshes = leeway.refreshes
            /\ leeway'.profile = leeway.profile /\ leeway'.fleets = leeway.fleets
            /\ leeway'.ticks = leeway.ticks - 1
        BY <1>1, <3>1 DEF IsLeeway
      <3> QED BY <1>1, <3>1, <3>2 DEF IsLeeway
    <2> QED BY <2>1, <2>2
  <1>5. /\ screen'.frames = screen.frames /\ screen'.cursor = screen.cursor /\ screen'.draft = screen.draft
        /\ screen'.applied = screen.applied /\ screen'.simple = screen.simple /\ screen'.generation = screen.generation
    BY <1>3 DEF ScreenFields
  <1>6. Stays
    BY DEF SourceReadBegins, Ticks
  <1> QED BY <1>3, <1>4, <1>5, <1>6, StaysInv DEF RefreshKeeps

LEMMA AnswersKeep ==
    ASSUME ViewInv, SourceAnswers \/ Invalidates
    PROVE  ViewInv' /\ RefreshKeeps
PROOF
  <1>1. IsRight(screen) /\ IsShown(screen) /\ WantedFits(screen) /\ CacheTrue(screen) /\ IsLeeway(leeway)
    BY DEF ViewInv, IsRight
  <1>2. IsLeeway(leeway') /\ Stays
    BY <1>1, LeewayStays DEF SourceAnswers, Invalidates
  <1>3. CASE SourceAnswers
    <2>1. PICK list \in leeway.fleets, fields \in leeway.fields : screen' = DisplayDevices(screen, list, fields)
      BY <1>3 DEF SourceAnswers
    <2>2. IsFleet(list)
      BY <1>1 DEF IsLeeway
    <2>3. /\ IsRight(screen') /\ screen'.frames = screen.frames /\ screen'.cursor = screen.cursor /\ screen'.draft = screen.draft
          /\ screen'.applied = screen.applied /\ screen'.simple = screen.simple /\ KeepsPick(screen, screen')
      BY <1>1, <2>1, <2>2, DisplayedRight
    <2> QED BY <1>2, <2>3, StaysInv DEF RefreshKeeps
  <1>4. CASE Invalidates
    <2>1. PICK list \in leeway.fleets :
             screen' = DisplayDevices([screen EXCEPT !.picked = Unpicked, !.reads = @ + 1], list,
                                         [tagged |-> screen.tagged, compliant |-> screen.compliant])
      BY <1>4 DEF Invalidates
    <2> DEFINE s == [screen EXCEPT !.picked = Unpicked, !.reads = @ + 1]
               fields == [tagged |-> screen.tagged, compliant |-> screen.compliant]
    <2>2. IsFleet(list)
      BY <1>1 DEF IsLeeway
    <2>3. SameBut(s, screen, {"picked", "reads"}) /\ s.picked = Unpicked /\ s.reads = screen.reads + 1
      BY <1>1 DEF SameBut, IsShown, ScreenFields
    <2>4. screen' = DisplayDevices(s, list, fields)
      BY <2>1
    <2> HIDE DEF s, fields
    <2>5. IsShown(s)
      BY <1>1, <2>3 DEF SameBut, IsShown, ScreenFields, Unpicked
    <2>6. \A f \in ScreenFields \ {"picked", "reads"} : s[f] = screen[f]
      BY <1>1, <2>3, SameFields
    <2>7. /\ s.frames = screen.frames /\ s.cursor = screen.cursor /\ s.wanted = screen.wanted /\ s.draft = screen.draft
          /\ s.applied = screen.applied /\ s.simple = screen.simple /\ s.cache = screen.cache /\ s.generation = screen.generation
          /\ s.devices = screen.devices /\ s.tagged = screen.tagged /\ s.compliant = screen.compliant
      BY <2>6 DEF ScreenFields
    <2>8. WantedFits(s)
      BY <1>1, <2>7 DEF WantedFits, Route
    <2>9. CacheTrue(s)
      <3>1. screen.generation <= s.generation
        BY <1>1, <2>7 DEF IsShown
      <3> QED BY <1>1, <2>5, <2>7, <3>1, CacheStays
    <2>10. /\ IsRight(screen')
           /\ \A f \in {"reads", "draft", "applied", "order", "simple", "frames", "cursor", "daemon", "profile", "wanted"} : screen'[f] = s[f]
      BY <2>2, <2>4, <2>5, <2>8, <2>9, DisplayedRight
    <2>11. /\ screen'.frames = screen.frames /\ screen'.cursor = screen.cursor /\ screen'.draft = screen.draft
           /\ screen'.applied = screen.applied /\ screen'.simple = screen.simple /\ screen'.reads = screen.reads + 1
      BY <2>3, <2>7, <2>10
    <2>12. screen'.reads # screen.reads
      BY <1>1, <2>11 DEF IsShown
    <2> QED BY <1>2, <2>10, <2>11, <2>12, StaysInv DEF RefreshKeeps
  <1> QED BY <1>3, <1>4

LEMMA DrawsKeep ==
    ASSUME ViewInv, Draws
    PROVE  ViewInv' /\ RefreshKeeps
PROOF
  <1>1. IsRight(screen) /\ IsShown(screen) /\ CacheTrue(screen) /\ IsLeeway(leeway)
    BY DEF ViewInv, IsRight
  <1>2. screen' = Looked(screen) /\ Stays /\ leeway' = leeway
    BY DEF Draws
  <1>3. SameBut(screen', screen, {"cache"}) /\ IsShown(screen') /\ CacheTrue(screen')
    BY <1>1, <1>2, LookedFacts
  <1>4. \A f \in ScreenFields \ {"cache"} : screen'[f] = screen[f]
    BY <1>1, <1>3, SameFields
  <1>5. /\ screen'.frames = screen.frames /\ screen'.cursor = screen.cursor /\ screen'.draft = screen.draft
        /\ screen'.applied = screen.applied /\ screen'.simple = screen.simple /\ screen'.generation = screen.generation
        /\ screen'.devices = screen.devices /\ screen'.tagged = screen.tagged /\ screen'.compliant = screen.compliant
        /\ screen'.now = screen.now /\ screen'.picked = screen.picked /\ screen'.wanted = screen.wanted
    BY <1>4 DEF ScreenFields
  <1>6. VisibleDevices(screen') = VisibleDevices(screen)
    BY <1>5, VisibleDepends
  <1>7. IsRight(screen')
    BY <1>1, <1>3, <1>5, <1>6 DEF IsRight, WantedFits, Route, PickFits, HasPick
  <1> QED BY <1>1, <1>2, <1>5, <1>7, StaysInv DEF RefreshKeeps

\* A change of route leaves the view behind as it was, and what the filter
\* line had to give back is forgotten.
LEMMA LeavesInv ==
    ASSUME ViewInv, IsLeeway(leeway'), IsRight(screen'), asOpened' = Forgotten, filterLine' = filterLine,
           filterLine = NoFilterLine \/ Route(screen') \in SimpleRoutes \/ Route(screen) = Route(screen')
               \/ Route(screen) \notin SimpleRoutes,
           \/ behind' = NoPlace
           \/ /\ behind' = [at |-> screen'.cursor - 1, frame |-> CurrentFrame(screen)]
              /\ screen'.cursor # 1 => screen'.frames[screen'.cursor - 1] = CurrentFrame(screen)
    PROVE  ViewInv'
PROOF
  <1>1. LineFits(filterLine', screen')
    BY DEF ViewInv, LineFits
  <1>2. OpenedFits(asOpened', filterLine', screen')
    BY DEF OpenedFits, Forgotten
  <1>3. BehindFits(behind', screen')
    <2>1. screen'.cursor \in 1..Len(screen'.frames) /\ DOMAIN screen'.frames = 1..Len(screen'.frames) /\ Len(screen'.frames) \in Nat
      BY FramesOf DEF IsRight
    <2>2. CASE behind' = NoPlace
      BY <2>2 DEF BehindFits, NoPlace
    <2>3. CASE /\ behind' = [at |-> screen'.cursor - 1, frame |-> CurrentFrame(screen)]
               /\ screen'.cursor # 1 => screen'.frames[screen'.cursor - 1] = CurrentFrame(screen)
      BY <2>1, <2>3 DEF BehindFits
    <2> QED BY <2>2, <2>3
  <1> QED BY <1>1, <1>2, <1>3 DEF ViewInv

LEMMA LosesDaemonKeeps ==
    ASSUME ViewInv, LosesDaemon
    PROVE  ViewInv' /\ RefreshKeeps
PROOF
  <1> DEFINE fields == [tagged |-> screen.tagged, compliant |-> screen.compliant]
             shown == DisplayDevices(screen, screen.devices, fields)
             lost == [shown EXCEPT !.daemon = FALSE]
  <1>1. IsShown(screen) /\ WantedFits(screen) /\ CacheTrue(screen) /\ IsLeeway(leeway) /\ HistorySize \in Nat \ {0}
    BY ViewAssumption DEF ViewInv, IsRight
  <1>2. IsFleet(screen.devices)
    BY <1>1 DEF IsShown
  <1>3. IsLeeway(leeway')
    BY <1>1, LeewayStays DEF LosesDaemon
  <1>4. \/ /\ Route(screen) = "devices" /\ screen' = Routed(lost, "local")
           /\ asOpened' = Forgotten /\ behind' = NoPlace /\ filterLine' = filterLine
        \/ screen' = lost /\ Stays
    BY DEF LosesDaemon
  <1> HIDE DEF fields
  <1>5. /\ IsRight(shown) /\ Route(shown) = Route(screen)
        /\ \A f \in {"reads", "draft", "applied", "order", "simple", "frames", "cursor", "daemon", "profile", "wanted"} : shown[f] = screen[f]
        /\ KeepsPick(screen, shown)
    BY <1>1, <1>2, DisplayedRight
  <1> HIDE DEF shown
  <1>6. IsShown(shown)
    BY <1>5 DEF IsRight
  <1>7. SameBut(lost, shown, {"daemon"}) /\ lost.daemon = FALSE
    BY <1>6 DEF SameBut, IsShown, ScreenFields
  <1> HIDE DEF lost
  <1>8. IsShown(lost)
    BY <1>6, <1>7 DEF SameBut, IsShown, ScreenFields
  <1>9. SameBut(lost, shown, {"simple", "reads", "daemon", "profile", "now"})
    BY <1>7 DEF SameBut
  <1>10. IsRight(lost) /\ Route(lost) = Route(screen)
    BY <1>5, <1>6, <1>8, <1>9, RightStays
  <1>11. \A f \in ScreenFields \ {"daemon"} : lost[f] = shown[f]
    BY <1>6, <1>7, SameFields
  <1>12. /\ lost.frames = screen.frames /\ lost.cursor = screen.cursor /\ lost.draft = screen.draft
         /\ lost.applied = screen.applied /\ lost.simple = screen.simple
         /\ lost.devices = shown.devices /\ lost.tagged = shown.tagged /\ lost.compliant = shown.compliant
         /\ lost.applied = shown.applied /\ lost.now = shown.now /\ lost.picked = shown.picked
    BY <1>5, <1>11 DEF ScreenFields
  <1>13. VisibleDevices(lost) = VisibleDevices(shown)
    BY <1>12, VisibleDepends
  <1>14. KeepsPick(screen, lost)
    BY <1>5, <1>12, <1>13 DEF KeepsPick
  <1>15. CASE screen' = lost /\ Stays
    BY <1>3, <1>10, <1>12, <1>14, <1>15, StaysInv DEF RefreshKeeps
  <1>16. CASE /\ Route(screen) = "devices" /\ screen' = Routed(lost, "local")
              /\ asOpened' = Forgotten /\ behind' = NoPlace /\ filterLine' = filterLine
    <2>1. CacheTrue(lost) /\ PickFits(lost) /\ "local" \in Places /\ "devices" \notin SimpleRoutes
      BY <1>10 DEF IsRight, Places, SimpleRoutes
    <2>2. /\ IsRight(screen') /\ SameBut(screen', lost, {"frames", "cursor", "wanted"})
          /\ VisibleDevices(screen') = VisibleDevices(lost)
      BY <1>1, <1>8, <1>16, <2>1, RoutedFacts
    <2>3. \A f \in ScreenFields \ {"frames", "cursor", "wanted"} : screen'[f] = lost[f]
      BY <1>8, <2>2, SameFields
    <2>4. screen'.picked = lost.picked
      BY <2>3 DEF ScreenFields
    <2>5. KeepsPick(screen, screen')
      BY <1>14, <2>2, <2>4 DEF KeepsPick
    <2> QED BY <1>3, <1>16, <2>1, <2>2, <2>5, LeavesInv DEF RefreshKeeps
  <1> QED BY <1>4, <1>15, <1>16

LEMMA ProfileAnswersKeeps ==
    ASSUME ViewInv, ProfileAnswers
    PROVE  ViewInv' /\ RefreshKeeps
PROOF
  <1>1. IsShown(screen) /\ WantedFits(screen) /\ CacheTrue(screen) /\ IsLeeway(leeway) /\ HistorySize \in Nat \ {0}
    BY ViewAssumption DEF ViewInv, IsRight
  <1>2. IsFleet(screen.devices) /\ screen.wanted \in {"none", "users"}
    BY <1>1 DEF IsShown
  <1>3. IsLeeway(leeway')
    BY <1>1, LeewayStays DEF ProfileAnswers
  <1>4. PICK fields \in leeway.fields :
          LET active == [DisplayDevices(screen, screen.devices, fields) EXCEPT !.profile = TRUE] IN
          IF screen.wanted = "none" THEN screen' = active /\ Stays
          ELSE /\ screen' = Navigated([active EXCEPT !.wanted = "none"], screen.wanted)
               /\ Leaves(screen')
    BY DEF ProfileAnswers
  <1> DEFINE shown == DisplayDevices(screen, screen.devices, fields)
             active == [shown EXCEPT !.profile = TRUE]
             asked == [active EXCEPT !.wanted = "none"]
  <1>5. \/ screen.wanted = "none" /\ screen' = active /\ Stays
        \/ screen.wanted # "none" /\ screen' = Navigated(asked, screen.wanted) /\ Leaves(screen')
    BY <1>4
  <1>6. /\ IsRight(shown) /\ Route(shown) = Route(screen)
        /\ \A f \in {"reads", "draft", "applied", "order", "simple", "frames", "cursor", "daemon", "profile", "wanted"} : shown[f] = screen[f]
        /\ KeepsPick(screen, shown)
    BY <1>1, <1>2, DisplayedRight
  <1> HIDE DEF shown
  <1>7. IsShown(shown)
    BY <1>6 DEF IsRight
  <1>8. SameBut(active, shown, {"profile"}) /\ active.profile = TRUE
    BY <1>7 DEF SameBut, IsShown, ScreenFields
  <1>9. SameBut(asked, active, {"wanted"}) /\ asked.wanted = "none"
    BY <1>7, <1>8 DEF SameBut, IsShown, ScreenFields
  <1> HIDE DEF active, asked
  <1>10. IsShown(active)
    BY <1>7, <1>8 DEF SameBut, IsShown, ScreenFields
  <1>11. SameBut(active, shown, {"simple", "reads", "daemon", "profile", "now"})
    BY <1>8 DEF SameBut
  <1>12. IsRight(active) /\ Route(active) = Route(screen)
    BY <1>6, <1>7, <1>10, <1>11, RightStays
  <1>13. IsShown(asked)
    BY <1>9, <1>10 DEF SameBut, IsShown, ScreenFields
  <1>14. \A f \in ScreenFields \ {"profile"} : active[f] = shown[f]
    BY <1>7, <1>8, SameFields
  <1>15. \A f \in ScreenFields \ {"wanted"} : asked[f] = active[f]
    BY <1>9, <1>10, SameFields
  <1>16. /\ active.frames = screen.frames /\ active.cursor = screen.cursor /\ active.draft = screen.draft
         /\ active.applied = screen.applied /\ active.simple = screen.simple /\ active.order = screen.order
         /\ active.devices = shown.devices /\ active.tagged = shown.tagged /\ active.compliant = shown.compliant
         /\ active.applied = shown.applied /\ active.now = shown.now /\ active.picked = shown.picked
    BY <1>6, <1>14 DEF ScreenFields
  <1>17. /\ asked.frames = active.frames /\ asked.cursor = active.cursor /\ asked.draft = active.draft
         /\ asked.applied = active.applied /\ asked.order = active.order /\ asked.cache = active.cache
         /\ asked.generation = active.generation
         /\ asked.devices = active.devices /\ asked.tagged = active.tagged /\ asked.compliant = active.compliant
         /\ asked.now = active.now /\ asked.picked = active.picked
    BY <1>15 DEF ScreenFields
  <1>18. VisibleDevices(active) = VisibleDevices(shown) /\ VisibleDevices(asked) = VisibleDevices(active)
    BY <1>16, <1>17, VisibleDepends
  <1>19. KeepsPick(screen, active)
    BY <1>6, <1>16, <1>18 DEF KeepsPick
  <1>20. CASE screen.wanted = "none" /\ screen' = active /\ Stays
    BY <1>3, <1>12, <1>16, <1>19, <1>20, StaysInv DEF RefreshKeeps
  <1>21. CASE screen.wanted # "none" /\ screen' = Navigated(asked, screen.wanted) /\ Leaves(screen')
    <2>1. Route(screen) = "profiles" /\ screen.wanted = "users" /\ "users" \in Places /\ "users" \in SimpleRoutes
      BY <1>1, <1>2, <1>21 DEF WantedFits, Places, SimpleRoutes
    <2>2. Route(asked) = "profiles"
      BY <1>12, <1>17, <2>1 DEF Route
    <2>3. CacheTrue(asked)
      <3>1. active.generation <= asked.generation
        BY <1>10, <1>17 DEF IsShown
      <3> QED BY <1>10, <1>12, <1>13, <1>17, <3>1, CacheStays DEF IsRight
    <2>4. PickFits(asked)
      BY <1>12, <1>17, <1>18 DEF IsRight, PickFits, HasPick
    <2>5. /\ SameBut(screen', asked, {"frames", "cursor", "wanted"}) /\ IsRight(screen') /\ Route(screen') = "users"
          /\ screen'.cursor # 1 => screen'.frames[screen'.cursor - 1] = CurrentFrame(asked)
          /\ VisibleDevices(screen') = VisibleDevices(asked)
      BY <1>1, <1>13, <1>21, <2>1, <2>2, <2>3, <2>4, NavigatedFacts
    <2>6. CurrentFrame(asked) = CurrentFrame(screen)
      BY <1>16, <1>17, <2>1, CurrentFrameOf
    <2>7. \A f \in ScreenFields \ {"frames", "cursor", "wanted"} : screen'[f] = asked[f]
      BY <1>13, <2>5, SameFields
    <2>8. screen'.picked = active.picked
      BY <1>17, <2>7 DEF ScreenFields
    <2>9. KeepsPick(screen, screen')
      BY <1>18, <1>19, <2>5, <2>8 DEF KeepsPick
    <2>10. asOpened' = Forgotten /\ behind' = [at |-> screen'.cursor - 1, frame |-> CurrentFrame(screen)] /\ filterLine' = filterLine
      BY <1>21 DEF Leaves
    <2>11. ViewInv'
      BY <1>3, <2>1, <2>5, <2>6, <2>10, LeavesInv
    <2> QED BY <2>9, <2>11 DEF RefreshKeeps
  <1> QED BY <1>5, <1>20, <1>21

-----------------------------------------------------------------------------
(* The user *)

LEMMA ActsKeep ==
    ASSUME ViewInv, NEW kind, Acts(kind)
    PROVE  IsLeeway(leeway')
PROOF
  <1>1. kind \in leeway.kinds
    BY DEF Acts
  <1> QED BY <1>1, LeewayStays DEF ViewInv

LEMMA MovesPickKeeps ==
    ASSUME ViewInv, MovesPick
    PROVE  ViewInv' /\ RefreshKeeps
PROOF
  <1> DEFINE looked == Looked(screen)
             shown == DevicesAt(screen, looked.cache.rows)
             at == PlaceIn(screen.picked, shown)
  <1>1. IsShown(screen) /\ IsRight(screen) /\ CacheTrue(screen) /\ IsFleet(screen.devices)
    BY DEF ViewInv, IsRight, IsShown
  <1>2. IsLeeway(leeway') /\ Stays
    BY ActsKeep DEF MovesPick
  <1>3. PICK to \in {1, IF at > 1 THEN at - 1 ELSE 1, at + 1, Len(shown)} :
          screen' = [looked EXCEPT !.picked = Nearest(shown, IF to = 0 THEN 1 ELSE to)]
    BY DEF MovesPick
  <1>4. /\ SameBut(looked, screen, {"cache"}) /\ IsShown(looked) /\ CacheTrue(looked)
        /\ shown = DevicesAt(screen, VisibleFor(screen))
    BY <1>1, LookedFacts
  <1>5. PICK n \in Nat : DOMAIN shown = 1..n /\ shown = [i \in 1..n |-> shown[i]]
    BY <1>1, <1>4, ShownFacts
  <1>6. /\ \A i \in DOMAIN shown : shown[i] \in VisibleDevices(screen)
        /\ \A d \in VisibleDevices(screen) : \E i \in DOMAIN shown : shown[i] = d
        /\ VisibleDevices(screen) \subseteq Nat \ {Unpicked}
    BY <1>1, <1>4, ShownFacts
  <1>7. at \in Nat \ {0}
    BY <1>5, PlaceIsOne
  <1> HIDE DEF looked, shown, at
  <1>8. Len(shown) \in Nat
    <2>1. shown \in Seq({shown[i] : i \in 1..n})
      BY <1>5
    <2> QED BY <2>1
  <1> DEFINE there == IF to = 0 THEN 1 ELSE to
  <1>9. there \in Nat \ {0}
    BY <1>7, <1>8
  <1>10. screen' = [looked EXCEPT !.picked = Nearest(shown, there)]
    BY <1>3
  <1> HIDE DEF there
  <1>11. /\ n = 0 => Nearest(shown, there) = Unpicked
         /\ n # 0 => \E i \in DOMAIN shown : Nearest(shown, there) = shown[i]
    BY <1>5, <1>9, NearestFacts
  <1>12. n = 0 <=> VisibleDevices(screen) = {}
    BY <1>5, <1>6
  <1>13. IF VisibleDevices(screen) = {} THEN Nearest(shown, there) = Unpicked ELSE Nearest(shown, there) \in VisibleDevices(screen)
    BY <1>6, <1>11, <1>12
  <1>14. Nearest(shown, there) \in Nat
    BY <1>6, <1>13 DEF Unpicked
  <1>15. SameBut(screen', looked, {"picked"}) /\ screen'.picked = Nearest(shown, there)
    BY <1>4, <1>10 DEF SameBut, IsShown, ScreenFields
  <1>16. IsShown(screen')
    BY <1>4, <1>14, <1>15 DEF SameBut, IsShown, ScreenFields
  <1>17. \A f \in ScreenFields \ {"picked"} : screen'[f] = looked[f]
    BY <1>4, <1>15, SameFields
  <1>18. \A f \in ScreenFields \ {"cache"} : looked[f] = screen[f]
    BY <1>1, <1>4, SameFields
  <1>19. /\ screen'.frames = screen.frames /\ screen'.cursor = screen.cursor /\ screen'.draft = screen.draft
         /\ screen'.applied = screen.applied /\ screen'.simple = screen.simple /\ screen'.generation = screen.generation
         /\ screen'.devices = screen.devices /\ screen'.tagged = screen.tagged /\ screen'.compliant = screen.compliant
         /\ screen'.now = screen.now /\ screen'.wanted = screen.wanted
         /\ screen'.cache = looked.cache /\ screen'.generation = looked.generation
         /\ screen'.devices = looked.devices /\ screen'.tagged = looked.tagged /\ screen'.compliant = looked.compliant
    BY <1>17, <1>18 DEF ScreenFields
  <1>20. CacheTrue(screen')
    <2>1. looked.generation <= screen'.generation
      BY <1>16, <1>19 DEF IsShown
    <2> QED BY <1>4, <1>16, <1>19, <2>1, CacheStays
  <1>21. VisibleDevices(screen') = VisibleDevices(screen)
    BY <1>19, VisibleDepends
  <1>22. IsRight(screen')
    BY <1>1, <1>13, <1>15, <1>16, <1>19, <1>20, <1>21 DEF IsRight, WantedFits, Route, PickFits, HasPick
  <1> QED BY <1>2, <1>19, <1>22, StaysInv DEF RefreshKeeps

\* The rows, and the filters, of the other routes.
LEMMA SimpleChanged ==
    ASSUME NEW s, IsRight(s), NEW route \in SimpleRoutes, NEW view \in SimpleView
    PROVE  LET t == [s EXCEPT !.simple[route] = view] IN
           /\ IsRight(t) /\ Route(t) = Route(s)
           /\ \A f \in ScreenFields \ {"simple"} : t[f] = s[f]
           /\ t.simple = [s.simple EXCEPT ![route] = view]
PROOF
  <1> DEFINE t == [s EXCEPT !.simple[route] = view]
  <1>1. IsShown(s) /\ s.simple \in SimpleViews
    BY DEF IsRight, IsShown
  <1>2. SameBut(t, s, {"simple"}) /\ t.simple = [s.simple EXCEPT ![route] = view]
    BY <1>1 DEF SameBut, IsShown, ScreenFields
  <1> HIDE DEF t
  <1>3. t.simple \in SimpleViews
    BY <1>1, <1>2 DEF SimpleViews
  <1>4. IsShown(t)
    BY <1>1, <1>2, <1>3 DEF SameBut, IsShown, ScreenFields
  <1>5. SameBut(t, s, {"simple", "reads", "daemon", "profile", "now"})
    BY <1>2 DEF SameBut
  <1> QED BY <1>1, <1>2, <1>4, <1>5, RightStays, SameFields DEF t

LEMMA MovesRowKeeps ==
    ASSUME ViewInv, MovesRow
    PROVE  ViewInv' /\ RefreshKeeps
PROOF
  <1> DEFINE route == Route(screen)
             view == [screen.simple[route] EXCEPT !.row = 1 - @]
  <1>1. IsRight(screen) /\ screen.simple \in SimpleViews /\ route \in SimpleRoutes
    BY DEF ViewInv, IsRight, IsShown, MovesRow
  <1>2. IsLeeway(leeway') /\ Stays /\ Closed
    BY ActsKeep DEF MovesRow
  <1>3. screen' = [screen EXCEPT !.simple[route] = view]
    <2>1. screen' = [screen EXCEPT !.simple[Route(screen)].row = 1 - @]
      BY DEF MovesRow
    <2> QED BY <2>1
  <1>4. view \in SimpleView
    <2>1. screen.simple[route] \in SimpleView
      BY <1>1 DEF SimpleViews
    <2> QED BY <2>1 DEF SimpleView
  <1> HIDE DEF route, view
  <1>5. IsRight(screen') /\ \A f \in ScreenFields \ {"simple"} : screen'[f] = screen[f]
    BY <1>1, <1>3, <1>4, SimpleChanged
  <1>6. screen'.frames = screen.frames /\ screen'.cursor = screen.cursor /\ screen'.generation = screen.generation
    BY <1>5 DEF ScreenFields
  <1>7. filterLine = NoFilterLine
    BY <1>2, ClosedForgets
  <1> QED BY <1>2, <1>5, <1>6, <1>7, StaysInv DEF RefreshKeeps

LEMMA SortsKeep ==
    ASSUME ViewInv, Sorts
    PROVE  ViewInv' /\ RefreshKeeps
PROOF
  <1> DEFINE u == [screen EXCEPT !.order = IF @ = "up" THEN "down" ELSE "up"]
  <1>1. IsShown(screen) /\ WantedFits(screen) /\ CacheTrue(screen)
    BY DEF ViewInv, IsRight
  <1>2. IsLeeway(leeway') /\ Stays /\ screen' = ReconcileSelection(u)
    BY ActsKeep DEF Sorts
  <1>3. SameBut(u, screen, {"draft", "applied", "order", "picked"}) /\ u.draft = screen.draft /\ u.applied = screen.applied
        /\ u.picked = screen.picked /\ u.order \in Orders
    BY <1>1 DEF SameBut, IsShown, ScreenFields, Orders
  <1> HIDE DEF u
  <1>4. u.draft = u.applied /\ u.applied \in Expressions /\ u.picked \in Nat
    BY <1>1, <1>3 DEF IsShown
  <1>5. /\ SameBut(screen', screen, {"draft", "applied", "order", "picked", "cache"}) /\ IsRight(screen')
        /\ screen'.draft = u.draft /\ screen'.applied = u.applied
    BY <1>1, <1>2, <1>3, <1>4, AskedFacts
  <1>6. \A f \in ScreenFields \ {"draft", "applied", "order", "picked", "cache"} : screen'[f] = screen[f]
    BY <1>1, <1>5, SameFields
  <1>7. screen'.frames = screen.frames /\ screen'.cursor = screen.cursor /\ screen'.generation = screen.generation
        /\ screen'.simple = screen.simple
    BY <1>6 DEF ScreenFields
  <1> QED BY <1>2, <1>3, <1>5, <1>7, StaysInv DEF RefreshKeeps

LEMMA OpensFilterKeeps ==
    ASSUME ViewInv, OpensFilter
    PROVE  ViewInv' /\ RefreshKeeps
PROOF
  <1> DEFINE input == IF Route(screen) = "devices" THEN screen.draft ELSE screen.simple[Route(screen)].filter
  <1>1. IsRight(screen) /\ IsShown(screen)
    BY DEF ViewInv, IsRight
  <1>2. IsLeeway(leeway') /\ screen' = screen /\ behind' = behind
    BY ActsKeep DEF OpensFilter
  <1>3. /\ filterLine' = [open |-> TRUE, input |-> input, draft |-> input, applied |-> screen.applied, picked |-> screen.picked,
                          collection |-> IF Route(screen) = "users" THEN screen.simple["users"].row ELSE 0,
                          profile |-> screen.simple["profiles"].row]
        /\ asOpened' = [known |-> TRUE, draft |-> screen.draft, applied |-> screen.applied, picked |-> screen.picked,
                        simple |-> screen.simple]
    BY DEF OpensFilter
  <1>4. Route(screen) \in SimpleRoutes \/ Route(screen) = "devices"
    BY <1>1, FramesOf DEF OpensFilter, Places
  <1>5. /\ screen.draft = screen.applied /\ screen.applied \in Expressions /\ screen.picked \in Nat
        /\ screen.simple \in SimpleViews
    BY <1>1 DEF IsShown
  <1>6. \A r \in SimpleRoutes : screen.simple[r].filter \in Inputs /\ screen.simple[r].row \in {0, 1}
    BY <1>5 DEF SimpleViews, SimpleView
  <1>7. input \in Inputs
    BY <1>4, <1>5, <1>6 DEF Inputs
  <1>8. /\ Route(screen) = "devices" => input = screen.draft
        /\ Route(screen) # "devices" => input = screen.simple[Route(screen)].filter
    OBVIOUS
  <1> HIDE DEF input
  <1>9. "devices" \notin SimpleRoutes /\ SimpleRoutes = {"users", "profiles"}
    BY DEF SimpleRoutes
  <1>10. LineFits(filterLine', screen)
    BY <1>3, <1>4, <1>5, <1>6, <1>7, <1>8, <1>9 DEF LineFits
  <1>11. filterLine' # NoFilterLine
    BY <1>3 DEF NoFilterLine
  <1>12. OpenedFits(asOpened', filterLine', screen)
    BY <1>3, <1>4, <1>5, <1>8, <1>9, <1>11 DEF OpenedFits
  <1> QED BY <1>1, <1>2, <1>10, <1>12 DEF ViewInv, RefreshKeeps

\* A filter changes what the route it is on shows, and nothing of the others.
LEMMA FilteredFacts ==
    ASSUME NEW s, IsRight(s), NEW input \in Inputs
    PROVE  LET t == Filtered(s, input) IN
           /\ IsRight(t) /\ t.generation = s.generation /\ t.frames = s.frames /\ t.cursor = s.cursor
           /\ Route(s) \in SimpleRoutes =>
                 /\ t.draft = s.draft /\ t.applied = s.applied
                 /\ \A r \in SimpleRoutes \ {Route(s)} : t.simple[r] = s.simple[r]
           /\ Route(s) \notin SimpleRoutes => t.simple = s.simple
PROOF
  <1> DEFINE t == Filtered(s, input)
             u == [s EXCEPT !.draft = input, !.applied = input]
             view == [filter |-> input, row |-> 0]
             route == Route(s)
  <1>1. IsShown(s) /\ WantedFits(s) /\ CacheTrue(s) /\ s.simple \in SimpleViews
    BY DEF IsRight, IsShown
  <1>2. CASE Route(s) \in SimpleRoutes
    <2>1. t = [s EXCEPT !.simple[route] = view]
      BY <1>2 DEF Filtered
    <2>2. view \in SimpleView
      BY DEF SimpleView
    <2> HIDE DEF view, t, route
    <2>3. /\ IsRight(t) /\ (\A f \in ScreenFields \ {"simple"} : t[f] = s[f])
          /\ t.simple = [s.simple EXCEPT ![route] = view]
      BY <1>2, <2>1, <2>2, SimpleChanged DEF route
    <2>4. /\ t.generation = s.generation /\ t.frames = s.frames /\ t.cursor = s.cursor
          /\ t.draft = s.draft /\ t.applied = s.applied
      BY <2>3 DEF ScreenFields
    <2>5. \A r \in SimpleRoutes \ {route} : t.simple[r] = s.simple[r]
      BY <1>1, <2>3 DEF SimpleViews
    <2> QED BY <1>2, <2>3, <2>4, <2>5 DEF route, t
  <1>3. CASE Route(s) \notin SimpleRoutes /\ input = "invalid"
    BY <1>3 DEF Filtered
  <1>4. CASE Route(s) \notin SimpleRoutes /\ input # "invalid"
    <2>1. t = ReconcileSelection(u)
      BY <1>4 DEF Filtered
    <2>2. input \in Expressions
      BY <1>4 DEF Inputs
    <2>3. SameBut(u, s, {"draft", "applied", "order", "picked"}) /\ u.draft = input /\ u.applied = input
          /\ u.order = s.order /\ u.picked = s.picked
      BY <1>1 DEF SameBut, IsShown, ScreenFields
    <2> HIDE DEF u, t
    <2>4. u.order \in Orders /\ u.picked \in Nat
      BY <1>1, <2>3 DEF IsShown
    <2>5. SameBut(t, s, {"draft", "applied", "order", "picked", "cache"}) /\ IsRight(t)
      BY <1>1, <2>1, <2>2, <2>3, <2>4, AskedFacts
    <2>6. \A f \in ScreenFields \ {"draft", "applied", "order", "picked", "cache"} : t[f] = s[f]
      BY <1>1, <2>5, SameFields
    <2>7. t.generation = s.generation /\ t.frames = s.frames /\ t.cursor = s.cursor /\ t.simple = s.simple
      BY <2>6 DEF ScreenFields
    <2> QED BY <1>4, <2>5, <2>7 DEF t
  <1> QED BY <1>2, <1>3, <1>4

LEMMA TypesKeep ==
    ASSUME ViewInv, NEW input \in Expressions \cup {"invalid"}, Types(input)
    PROVE  ViewInv' /\ RefreshKeeps
PROOF
  <1>1. IsRight(screen) /\ input \in Inputs /\ IsLeeway(leeway')
    BY ActsKeep DEF ViewInv, Inputs, Types
  <1>2. /\ screen' = Filtered(screen, input) /\ filterLine' = [filterLine EXCEPT !.input = input]
        /\ asOpened' = asOpened /\ behind' = behind
    BY DEF Types
  <1>3. /\ IsRight(screen') /\ screen'.generation = screen.generation
        /\ screen'.frames = screen.frames /\ screen'.cursor = screen.cursor
        /\ Route(screen) \in SimpleRoutes =>
              /\ screen'.draft = screen.draft /\ screen'.applied = screen.applied
              /\ \A r \in SimpleRoutes \ {Route(screen)} : screen'.simple[r] = screen.simple[r]
        /\ Route(screen) \notin SimpleRoutes => screen'.simple = screen.simple
    BY <1>1, <1>2, FilteredFacts
  <1>4. Route(screen') = Route(screen)
    BY <1>3 DEF Route
  <1>5. filterLine # NoFilterLine
    BY DEF Types, Closed, NoFilterLine
  <1>6. /\ DOMAIN filterLine = {"open", "input", "draft", "applied", "picked", "collection", "profile"}
        /\ filterLine.open = TRUE
    BY <1>5 DEF ViewInv, LineFits
  <1>7. /\ DOMAIN filterLine' = DOMAIN filterLine /\ filterLine'.input = input /\ filterLine'.open = filterLine.open
        /\ filterLine'.draft = filterLine.draft /\ filterLine'.applied = filterLine.applied
        /\ filterLine'.picked = filterLine.picked /\ filterLine'.collection = filterLine.collection
        /\ filterLine'.profile = filterLine.profile
    BY <1>2, <1>6
  <1>8. LineFits(filterLine', screen')
    BY <1>1, <1>4, <1>5, <1>7 DEF ViewInv, LineFits
  <1>9. filterLine' # NoFilterLine
    BY <1>6, <1>7 DEF NoFilterLine
  <1>10. OpenedFits(asOpened', filterLine', screen')
    BY <1>2, <1>3, <1>4, <1>7, <1>9 DEF ViewInv, OpenedFits
  <1>11. BehindFits(behind', screen')
    BY <1>2, <1>3 DEF ViewInv, BehindFits
  <1> QED BY <1>1, <1>3, <1>8, <1>10, <1>11 DEF ViewInv, RefreshKeeps

\* The line closes with the route and the frames there are.
LEMMA ClosesInv ==
    ASSUME ViewInv, IsLeeway(leeway'), IsRight(screen'), screen'.frames = screen.frames, screen'.cursor = screen.cursor,
           filterLine' = NoFilterLine, asOpened' = Forgotten, behind' = behind
    PROVE  ViewInv'
BY DEF ViewInv, LineFits, OpenedFits, Forgotten, BehindFits

LEMMA AcceptsKeep ==
    ASSUME ViewInv, Accepts
    PROVE  ViewInv' /\ RefreshKeeps
PROOF
  <1>1. IsRight(screen) /\ IsLeeway(leeway')
    BY ActsKeep DEF ViewInv, Accepts
  <1>2. /\ screen' = Filtered(screen, filterLine.input) /\ filterLine' = NoFilterLine
        /\ asOpened' = Forgotten /\ behind' = behind
    BY DEF Accepts
  <1>3. filterLine # NoFilterLine
    BY DEF Accepts, Closed, NoFilterLine
  <1>4. filterLine.input \in Inputs
    BY <1>3 DEF ViewInv, LineFits
  <1>5. /\ IsRight(screen') /\ screen'.generation = screen.generation
        /\ screen'.frames = screen.frames /\ screen'.cursor = screen.cursor
    BY <1>1, <1>2, <1>4, FilteredFacts
  <1> QED BY <1>1, <1>2, <1>5, ClosesInv DEF RefreshKeeps

\* Esc gives back the filter and the selection there were when the line
\* opened, unless the route was changed under it.
EscapeGivesBack ==
    asOpened.known =>
        /\ <<screen'.draft, screen'.applied, screen'.simple>> = <<asOpened.draft, asOpened.applied, asOpened.simple>>
        /\ Route(screen) = "devices" => KeepsPick(asOpened, screen')

LEMMA EscapesGiveBack ==
    ASSUME ViewInv, Escapes
    PROVE  ViewInv' /\ RefreshKeeps /\ EscapeGivesBack
PROOF
  <1>1. IsRight(screen) /\ IsShown(screen) /\ WantedFits(screen) /\ CacheTrue(screen) /\ screen.simple \in SimpleViews
        /\ IsLeeway(leeway')
    BY ActsKeep DEF ViewInv, IsRight, IsShown, Escapes
  <1>2. screen' = Escaped(screen) /\ filterLine' = NoFilterLine /\ asOpened' = Forgotten /\ behind' = behind
    BY DEF Escapes
  <1>3. filterLine # NoFilterLine
    BY DEF Escapes, Closed, NoFilterLine
  <1>4. /\ filterLine.draft \in Inputs /\ filterLine.applied \in Expressions
        /\ filterLine.picked \in Nat /\ filterLine.collection \in {0, 1} /\ filterLine.profile \in {0, 1}
        /\ Route(screen) \notin SimpleRoutes => filterLine.draft = filterLine.applied
    BY <1>3 DEF ViewInv, LineFits
  <1>5. SimpleRoutes = {"users", "profiles"} /\ "devices" \notin SimpleRoutes
    BY DEF SimpleRoutes
  <1> DEFINE route == Route(screen)
             view == [filter |-> filterLine.draft, row |-> IF route = "users" THEN filterLine.collection ELSE filterLine.profile]
             u == [screen EXCEPT !.draft = filterLine.draft, !.applied = filterLine.applied, !.picked = filterLine.picked]
  <1>6. CASE route \in SimpleRoutes
    <2>1. screen' = [screen EXCEPT !.simple[route] = view]
      <3>1. CASE route = "users"
        BY <1>2, <3>1 DEF Escaped
      <3>2. CASE route = "profiles"
        BY <1>2, <3>2 DEF Escaped
      <3> QED BY <1>5, <1>6, <3>1, <3>2
    <2>2. view \in SimpleView
      BY <1>4 DEF SimpleView
    <2>3. view.filter = filterLine.draft /\ view.row = IF route = "users" THEN filterLine.collection ELSE filterLine.profile
      OBVIOUS
    <2>4. view = [filter |-> view.filter, row |-> view.row]
      OBVIOUS
    <2> HIDE DEF route, view
    <2>5. /\ IsRight(screen') /\ (\A f \in ScreenFields \ {"simple"} : screen'[f] = screen[f])
          /\ screen'.simple = [screen.simple EXCEPT ![route] = view]
      BY <1>1, <1>6, <2>1, <2>2, SimpleChanged
    <2>6. /\ screen'.generation = screen.generation /\ screen'.frames = screen.frames /\ screen'.cursor = screen.cursor
          /\ screen'.draft = screen.draft /\ screen'.applied = screen.applied
      BY <2>5 DEF ScreenFields
    <2>7. ASSUME asOpened.known
          PROVE  /\ screen'.draft = asOpened.draft /\ screen'.applied = asOpened.applied
                 /\ screen'.simple = asOpened.simple
      <3>1. /\ asOpened.simple \in SimpleViews /\ screen.draft = asOpened.draft /\ screen.applied = asOpened.applied
            /\ filterLine.draft = asOpened.simple[route].filter
            /\ (IF route = "users" THEN filterLine.collection ELSE filterLine.profile) = asOpened.simple[route].row
            /\ \A r \in SimpleRoutes \ {route} : screen.simple[r] = asOpened.simple[r]
        BY <1>6, <2>7 DEF ViewInv, OpenedFits, route
      <3>2. asOpened.simple[route] \in SimpleView
        BY <1>6, <3>1 DEF SimpleViews
      <3>3. asOpened.simple[route] = [filter |-> asOpened.simple[route].filter, row |-> asOpened.simple[route].row]
        BY <3>2 DEF SimpleView
      <3>4. asOpened.simple[route] = view
        BY <2>3, <2>4, <3>1, <3>3
      <3>5. screen'.simple \in SimpleViews
        BY <2>5 DEF IsRight, IsShown
      <3>6. \A r \in SimpleRoutes : screen'.simple[r] = asOpened.simple[r]
        BY <1>1, <1>6, <2>5, <3>1, <3>4 DEF SimpleViews
      <3>7. screen'.simple = asOpened.simple
        BY <3>1, <3>5, <3>6 DEF SimpleViews
      <3> QED BY <2>6, <3>1, <3>7
    <2>8. ViewInv'
      BY <1>1, <1>2, <2>5, <2>6, ClosesInv
    <2> QED BY <1>5, <1>6, <2>6, <2>7, <2>8 DEF RefreshKeeps, EscapeGivesBack, route
  <1>7. CASE route \notin SimpleRoutes
    <2>1. screen' = ReconcileSelection(u)
      BY <1>2, <1>5, <1>7 DEF Escaped
    <2>2. SameBut(u, screen, {"draft", "applied", "order", "picked"}) /\ u.draft = filterLine.draft /\ u.applied = filterLine.applied
          /\ u.order = screen.order /\ u.picked = filterLine.picked
      BY <1>1 DEF SameBut, IsShown, ScreenFields
    <2> HIDE DEF u
    <2>3. u.draft = u.applied /\ u.applied \in Expressions /\ u.order \in Orders /\ u.picked \in Nat
      BY <1>1, <1>4, <1>7, <2>2 DEF IsShown
    <2>4. /\ SameBut(screen', screen, {"draft", "applied", "order", "picked", "cache"}) /\ IsRight(screen')
          /\ screen'.draft = u.draft /\ screen'.applied = u.applied /\ KeepsPick(u, screen')
      BY <1>1, <2>1, <2>2, <2>3, AskedFacts
    <2>5. \A f \in ScreenFields \ {"draft", "applied", "order", "picked", "cache"} : screen'[f] = screen[f]
      BY <1>1, <2>4, SameFields
    <2>6. /\ screen'.generation = screen.generation /\ screen'.frames = screen.frames /\ screen'.cursor = screen.cursor
          /\ screen'.simple = screen.simple
      BY <2>5 DEF ScreenFields
    <2>7. ASSUME asOpened.known
          PROVE  /\ screen'.draft = asOpened.draft /\ screen'.applied = asOpened.applied
                 /\ screen'.simple = asOpened.simple /\ KeepsPick(asOpened, screen')
      <3>1. /\ screen.simple = asOpened.simple
            /\ filterLine.draft = asOpened.draft /\ filterLine.applied = asOpened.applied /\ filterLine.picked = asOpened.picked
        BY <1>7, <2>7 DEF ViewInv, OpenedFits
      <3> QED BY <2>2, <2>4, <2>6, <3>1 DEF KeepsPick
    <2>8. ViewInv'
      BY <1>1, <1>2, <2>4, <2>6, ClosesInv
    <2> QED BY <2>6, <2>7, <2>8 DEF RefreshKeeps, EscapeGivesBack
  <1> QED BY <1>6, <1>7

\* Capturing, or appending to, the frames of a screen leaves the rest right.
LEMMA FramedRight ==
    ASSUME NEW s, IsRight(s), NEW t, SameBut(t, s, {"frames", "cursor"}), IsShown(t), Route(t) = Route(s),
           CacheTrue(t), VisibleDevices(t) = VisibleDevices(s)
    PROVE  IsRight(t) /\ t.generation = s.generation
PROOF
  <1>1. IsShown(s)
    BY DEF IsRight
  <1>2. \A f \in ScreenFields \ {"frames", "cursor"} : t[f] = s[f]
    BY <1>1, SameFields
  <1>3. t.generation = s.generation /\ t.wanted = s.wanted /\ t.applied = s.applied /\ t.picked = s.picked
    BY <1>2 DEF ScreenFields
  <1> QED BY <1>3 DEF IsRight, WantedFits, PickFits, HasPick

LEMMA NavigatesKeeps ==
    ASSUME ViewInv, NEW route \in Places, Navigates(route)
    PROVE  ViewInv' /\ RefreshKeeps
PROOF
  <1>1. IsRight(screen) /\ IsShown(screen) /\ CacheTrue(screen) /\ PickFits(screen) /\ HistorySize \in Nat \ {0}
    BY ViewAssumption DEF ViewInv, IsRight
  <1>2. IsLeeway(leeway') /\ Closed /\ Route(screen) # route
    BY ActsKeep DEF Navigates
  <1>3. filterLine = NoFilterLine
    BY <1>2, ClosedForgets
  <1>4. IF Route(screen') = Route(screen) THEN Stays ELSE Leaves(screen')
    BY DEF Navigates
  <1>5. CASE route = "users" /\ ~screen.profile
    <2> DEFINE s == [screen EXCEPT !.wanted = "users"]
    <2>1. screen' = Navigated(s, "profiles")
      BY <1>5 DEF Navigates
    <2>2. SameBut(s, screen, {"wanted"}) /\ s.wanted = "users"
      BY <1>1 DEF SameBut, IsShown, ScreenFields
    <2> HIDE DEF s
    <2>3. IsShown(s)
      BY <1>1, <2>2 DEF SameBut, IsShown, ScreenFields
    <2>4. \A f \in ScreenFields \ {"wanted"} : s[f] = screen[f]
      BY <1>1, <2>2, SameFields
    <2>5. /\ s.frames = screen.frames /\ s.cursor = screen.cursor /\ s.draft = screen.draft /\ s.applied = screen.applied
          /\ s.order = screen.order /\ s.picked = screen.picked /\ s.cache = screen.cache /\ s.generation = screen.generation
          /\ s.devices = screen.devices /\ s.tagged = screen.tagged /\ s.compliant = screen.compliant /\ s.now = screen.now
      BY <2>4 DEF ScreenFields
    <2>6. Route(s) = Route(screen) /\ CurrentFrame(s) = CurrentFrame(screen) /\ VisibleDevices(s) = VisibleDevices(screen)
      BY <2>5, CurrentFrameOf, VisibleDepends
    <2>7. CacheTrue(s)
      <3>1. screen.generation <= s.generation
        BY <1>1, <2>5 DEF IsShown
      <3> QED BY <1>1, <2>3, <2>5, <3>1, CacheStays
    <2>8. PickFits(s)
      BY <1>1, <2>5, <2>6 DEF PickFits, HasPick
    <2>9. CASE Route(s) = "profiles"
      <3>1. screen' = s
        BY <2>1, <2>9 DEF Navigated
      <3>2. IsRight(screen')
        BY <2>3, <2>7, <2>8, <2>9, <3>1 DEF IsRight, WantedFits
      <3>3. Stays
        BY <1>4, <2>6, <3>1
      <3> QED BY <1>2, <1>3, <2>5, <3>1, <3>2, <3>3, StaysInv DEF RefreshKeeps
    <2>10. CASE Route(s) # "profiles"
      <3>1. "profiles" \in Places
        BY DEF Places, SimpleRoutes
      <3>2. /\ SameBut(screen', s, {"frames", "cursor", "wanted", "draft", "applied", "order", "picked", "cache"})
            /\ IsRight(screen') /\ Route(screen') = "profiles"
            /\ screen'.cursor # 1 => screen'.frames[screen'.cursor - 1] = CurrentFrame(screen)
        BY <1>1, <2>1, <2>3, <2>6, <2>7, <2>8, <2>10, <3>1, NavigatedFacts
      <3>3. \A f \in ScreenFields \ {"frames", "cursor", "wanted", "draft", "applied", "order", "picked", "cache"} : screen'[f] = s[f]
        BY <2>3, <3>2, SameFields
      <3>4. screen'.generation = screen.generation
        BY <2>5, <3>3 DEF ScreenFields
      <3>5. Leaves(screen')
        BY <1>4, <2>6, <2>10, <3>2
      <3> QED BY <1>2, <1>3, <3>2, <3>4, <3>5, LeavesInv DEF Leaves, RefreshKeeps
    <2> QED BY <2>9, <2>10
  <1>6. CASE ~(route = "users" /\ ~screen.profile)
    <2>1. screen' = Navigated(screen, route)
      BY <1>6 DEF Navigates
    <2>2. /\ SameBut(screen', screen, {"frames", "cursor", "wanted", "draft", "applied", "order", "picked", "cache"})
          /\ IsRight(screen') /\ Route(screen') = route
          /\ screen'.cursor # 1 => screen'.frames[screen'.cursor - 1] = CurrentFrame(screen)
      BY <1>1, <1>2, <2>1, NavigatedFacts
    <2>3. \A f \in ScreenFields \ {"frames", "cursor", "wanted", "draft", "applied", "order", "picked", "cache"} : screen'[f] = screen[f]
      BY <1>1, <2>2, SameFields
    <2>4. screen'.generation = screen.generation
      BY <2>3 DEF ScreenFields
    <2>5. Leaves(screen')
      BY <1>2, <1>4, <2>2
    <2> QED BY <1>2, <1>3, <2>2, <2>4, <2>5, LeavesInv DEF Leaves, RefreshKeeps
  <1> QED BY <1>5, <1>6

\* The view one goes back or forward to is as it was left.
HistoryGivesBack ==
    behind.at # 0 /\ behind'.at = screen.cursor /\ screen'.cursor = behind.at =>
        /\ Route(screen') = behind.frame.route
        /\ Route(screen') = "devices" =>
              /\ <<screen'.draft, screen'.applied, screen'.order>> = <<behind.frame.draft, behind.frame.applied, behind.frame.order>>
              /\ KeepsPick(behind.frame, screen')

LEMMA MovesHistoryGivesBack ==
    ASSUME ViewInv, NEW step \in {-1, 1}, MovesHistory(step)
    PROVE  ViewInv' /\ RefreshKeeps /\ HistoryGivesBack
PROOF
  <1> DEFINE kept == Captured(screen)
             to == screen.cursor + step
             there == [kept EXCEPT !.cursor = @ + step]
             frame == kept.frames[to]
  <1>1. IsRight(screen) /\ IsShown(screen) /\ CacheTrue(screen) /\ PickFits(screen) /\ BehindFits(behind, screen)
    BY DEF ViewInv, IsRight
  <1>2. IsLeeway(leeway') /\ Closed
    BY ActsKeep DEF MovesHistory
  <1>3. filterLine = NoFilterLine /\ ~asOpened.known
    BY <1>2, ClosedForgets
  <1>4. IF to \notin DOMAIN screen.frames THEN screen' = kept /\ Stays
        ELSE /\ screen' = RestoreFrame(there, frame)
             /\ asOpened' = Forgotten /\ filterLine' = filterLine
             /\ behind' = [at |-> screen.cursor, frame |-> CurrentFrame(screen)]
    BY DEF MovesHistory
  <1>5. /\ SameBut(kept, screen, {"frames"}) /\ IsShown(kept) /\ Route(kept) = Route(screen)
        /\ DOMAIN kept.frames = DOMAIN screen.frames
        /\ kept.frames[kept.cursor] = CurrentFrame(screen)
        /\ \A i \in DOMAIN screen.frames \ {screen.cursor} : kept.frames[i] = screen.frames[i]
        /\ CacheTrue(kept) /\ VisibleDevices(kept) = VisibleDevices(screen)
    BY <1>1, CapturedFacts
  <1> HIDE DEF kept
  <1>6. SameBut(kept, screen, {"frames", "cursor"})
    BY <1>5 DEF SameBut
  <1>7. IsRight(kept) /\ kept.generation = screen.generation
    BY <1>1, <1>5, <1>6, FramedRight
  <1>8. \A f \in ScreenFields \ {"frames"} : kept[f] = screen[f]
    BY <1>1, <1>5, SameFields
  <1>9. kept.cursor = screen.cursor /\ kept.applied = screen.applied /\ kept.picked = screen.picked
    BY <1>8 DEF ScreenFields
  <1>10. screen.cursor \in Nat \ {0} /\ DOMAIN screen.frames = 1..Len(screen.frames) /\ Len(screen.frames) \in Nat
         /\ screen.cursor \in DOMAIN screen.frames
    BY <1>1, FramesOf
  <1>11. to # screen.cursor
    BY <1>10
  <1>12. CASE to \notin DOMAIN screen.frames
    <2>1. screen' = kept /\ filterLine' = filterLine /\ asOpened' = asOpened /\ behind' = behind
      BY <1>4, <1>12 DEF Stays
    <2>2. LineFits(filterLine', screen') /\ OpenedFits(asOpened', filterLine', screen')
      BY <1>3, <2>1 DEF LineFits, OpenedFits
    <2>3. BehindFits(behind', screen')
      BY <1>1, <1>5, <1>9, <2>1 DEF BehindFits
    <2>4. ViewInv'
      BY <1>2, <1>7, <2>1, <2>2, <2>3 DEF ViewInv
    <2>5. behind.at # 0 => behind.at # screen.cursor
      BY <1>1 DEF BehindFits
    <2> QED BY <1>7, <2>1, <2>4, <2>5 DEF RefreshKeeps, HistoryGivesBack
  <1>13. CASE to \in DOMAIN screen.frames
    <2>1. /\ screen' = RestoreFrame(there, frame) /\ asOpened' = Forgotten /\ filterLine' = filterLine
          /\ behind' = [at |-> screen.cursor, frame |-> CurrentFrame(screen)]
      BY <1>4, <1>13
    <2>2. SameBut(there, kept, {"cursor"}) /\ there.cursor = to
      BY <1>5, <1>9 DEF SameBut, IsShown, ScreenFields
    <2> HIDE DEF there, to
    <2>3. \A f \in ScreenFields \ {"cursor"} : there[f] = kept[f]
      BY <1>5, <2>2, SameFields
    <2>4. /\ there.frames = kept.frames /\ there.applied = kept.applied /\ there.picked = kept.picked
          /\ there.cache = kept.cache /\ there.generation = kept.generation /\ there.devices = kept.devices
          /\ there.tagged = kept.tagged /\ there.compliant = kept.compliant /\ there.now = kept.now
      BY <2>3 DEF ScreenFields
    <2>5. IsShown(there)
      BY <1>5, <1>13, <2>2, <2>4 DEF SameBut, IsShown, ScreenFields
    <2>6. VisibleDevices(there) = VisibleDevices(kept)
      BY <2>4, VisibleDepends
    <2>7. CacheTrue(there)
      <3>1. kept.generation <= there.generation
        BY <1>5, <2>4 DEF IsShown
      <3> QED BY <1>5, <2>4, <2>5, <3>1, CacheStays
    <2>8. PickFits(there)
      BY <1>1, <1>5, <1>9, <2>4, <2>6 DEF PickFits, HasPick
    <2>9. IsFrame(frame) /\ frame.route = Route(there) /\ frame = screen.frames[to]
      <3>1. /\ there.cursor \in 1..Len(there.frames) /\ Route(there) = there.frames[there.cursor].route
            /\ \A i \in 1..Len(there.frames) : IsFrame(there.frames[i])
        BY <2>5, FramesOf
      <3> QED BY <1>5, <1>11, <1>13, <2>2, <2>4, <3>1
    <2> HIDE DEF frame
    <2>10. /\ SameBut(screen', there, {"wanted", "draft", "applied", "order", "picked", "cache"})
           /\ IsRight(screen') /\ Route(screen') = Route(there)
           /\ Route(there) = "devices" =>
                 /\ screen'.draft = frame.draft /\ screen'.applied = frame.applied /\ screen'.order = frame.order
                 /\ KeepsPick(frame, screen')
      BY <2>1, <2>5, <2>7, <2>8, <2>9, RestoredFacts
    <2>11. \A f \in ScreenFields \ {"wanted", "draft", "applied", "order", "picked", "cache"} : screen'[f] = there[f]
      BY <2>5, <2>10, SameFields
    <2>12. screen'.generation = there.generation /\ screen'.frames = there.frames /\ screen'.cursor = there.cursor
      BY <2>11 DEF ScreenFields
    <2>13. BehindFits(behind', screen')
      <3>1. screen'.cursor = to /\ screen'.frames = kept.frames
        BY <2>2, <2>4, <2>12
      <3>2. screen.cursor \in DOMAIN screen'.frames \ {screen'.cursor} /\ screen'.frames[screen.cursor] = CurrentFrame(screen)
        BY <1>5, <1>9, <1>10, <1>11, <3>1
      <3> QED BY <2>1, <3>2 DEF BehindFits
    <2>14. LineFits(filterLine', screen') /\ OpenedFits(asOpened', filterLine', screen')
      BY <1>3, <2>1 DEF LineFits, OpenedFits, Forgotten
    <2>15. ViewInv'
      BY <1>2, <2>10, <2>13, <2>14 DEF ViewInv
    <2>16. behind.at # 0 /\ screen'.cursor = behind.at => behind.frame = frame
      BY <1>1, <2>2, <2>9, <2>12 DEF BehindFits
    <2>17. HistoryGivesBack
      BY <2>9, <2>10, <2>16 DEF HistoryGivesBack
    <2> QED BY <1>7, <2>4, <2>12, <2>15, <2>17 DEF RefreshKeeps
  <1> QED BY <1>12, <1>13

LEMMA AppliesSavedViewKeeps ==
    ASSUME ViewInv, NEW expression \in Expressions, NEW order \in {"up", "down"}, AppliesSavedView(expression, order)
    PROVE  ViewInv' /\ RefreshKeeps
PROOF
  <1> DEFINE here == Route(screen) = "devices"
             kept == IF here THEN Captured(screen) ELSE screen
             there == Navigated(kept, "devices")
             u == [there EXCEPT !.draft = expression, !.applied = expression, !.order = order]
             shown == ReconcileSelection(u)
  <1>1. IsRight(screen) /\ IsShown(screen) /\ CacheTrue(screen) /\ PickFits(screen) /\ HistorySize \in Nat \ {0}
    BY ViewAssumption DEF ViewInv, IsRight
  <1>2. IsLeeway(leeway') /\ Closed
    BY ActsKeep DEF AppliesSavedView
  <1>3. filterLine = NoFilterLine
    BY <1>2, ClosedForgets
  <1>4. screen' = (IF here THEN Appended(shown, CurrentFrame(shown)) ELSE Captured(shown)) /\ Leaves(screen')
    BY DEF AppliesSavedView
  <1>5. /\ IsRight(there) /\ Route(there) = "devices" /\ there.generation = screen.generation
        /\ here => there.frames[there.cursor] = CurrentFrame(screen)
        /\ ~here /\ there.cursor # 1 => there.frames[there.cursor - 1] = CurrentFrame(screen)
    <2>1. CASE here
      <3>1. /\ SameBut(kept, screen, {"frames"}) /\ IsShown(kept) /\ Route(kept) = Route(screen)
            /\ kept.frames[kept.cursor] = CurrentFrame(screen)
            /\ CacheTrue(kept) /\ VisibleDevices(kept) = VisibleDevices(screen)
        BY <1>1, <2>1, CapturedFacts
      <3> HIDE DEF kept
      <3>2. SameBut(kept, screen, {"frames", "cursor"})
        BY <3>1 DEF SameBut
      <3>3. IsRight(kept) /\ kept.generation = screen.generation
        BY <1>1, <3>1, <3>2, FramedRight
      <3>4. there = kept
        BY <2>1, <3>1 DEF Navigated
      <3> QED BY <2>1, <3>1, <3>3, <3>4
    <2>2. CASE ~here
      <3>1. kept = screen /\ "devices" \in Places
        BY <2>2 DEF Places
      <3> HIDE DEF kept
      <3>2. /\ SameBut(there, screen, {"frames", "cursor", "wanted", "draft", "applied", "order", "picked", "cache"})
            /\ IsRight(there) /\ Route(there) = "devices"
            /\ there.cursor # 1 => there.frames[there.cursor - 1] = CurrentFrame(screen)
        BY <1>1, <2>2, <3>1, NavigatedFacts
      <3>3. \A f \in ScreenFields \ {"frames", "cursor", "wanted", "draft", "applied", "order", "picked", "cache"} : there[f] = screen[f]
        BY <1>1, <3>2, SameFields
      <3>4. there.generation = screen.generation
        BY <3>3 DEF ScreenFields
      <3> QED BY <2>2, <3>2, <3>4
    <2> QED BY <2>1, <2>2
  <1> HIDE DEF there
  <1>6. IsShown(there) /\ WantedFits(there) /\ CacheTrue(there)
    BY <1>5 DEF IsRight
  <1>7. SameBut(u, there, {"draft", "applied", "order", "picked"}) /\ u.draft = expression /\ u.applied = expression
        /\ u.order = order /\ u.picked = there.picked
    BY <1>6 DEF SameBut, IsShown, ScreenFields
  <1> HIDE DEF u
  <1>8. u.order \in Orders /\ u.picked \in Nat
    BY <1>6, <1>7 DEF IsShown, Orders
  <1>9. SameBut(shown, there, {"draft", "applied", "order", "picked", "cache"}) /\ IsRight(shown) /\ Route(shown) = Route(there)
    BY <1>6, <1>7, <1>8, AskedFacts
  <1> HIDE DEF shown
  <1>10. \A f \in ScreenFields \ {"draft", "applied", "order", "picked", "cache"} : shown[f] = there[f]
    BY <1>6, <1>9, SameFields
  <1>11. shown.frames = there.frames /\ shown.cursor = there.cursor /\ shown.generation = there.generation
    BY <1>10 DEF ScreenFields
  <1>12. IsShown(shown) /\ CacheTrue(shown)
    BY <1>9 DEF IsRight
  <1>13. /\ IsRight(screen') /\ screen'.generation = screen.generation
         /\ screen'.cursor # 1 => screen'.frames[screen'.cursor - 1] = CurrentFrame(screen)
         /\ Route(screen') = "devices"
    <2>1. CASE here
      <3>1. IsFrame(CurrentFrame(shown)) /\ CurrentFrame(shown).route = Route(shown)
        BY <1>12, FramesAreFrames
      <3>2. screen' = Appended(shown, CurrentFrame(shown))
        BY <1>4, <2>1
      <3>3. /\ SameBut(screen', shown, {"frames", "cursor"}) /\ IsShown(screen') /\ Route(screen') = Route(shown)
            /\ screen'.cursor # 1 => screen'.frames[screen'.cursor - 1] = shown.frames[shown.cursor]
            /\ CacheTrue(screen') /\ VisibleDevices(screen') = VisibleDevices(shown)
        BY <1>1, <1>12, <3>1, <3>2, AppendedFacts
      <3>4. IsRight(screen') /\ screen'.generation = shown.generation
        BY <1>9, <3>3, FramedRight
      <3> QED BY <1>5, <1>9, <1>11, <2>1, <3>3, <3>4
    <2>2. CASE ~here
      <3>1. screen' = Captured(shown)
        BY <1>4, <2>2
      <3>2. /\ SameBut(screen', shown, {"frames"}) /\ IsShown(screen') /\ Route(screen') = Route(shown)
            /\ \A i \in DOMAIN shown.frames \ {shown.cursor} : screen'.frames[i] = shown.frames[i]
            /\ CacheTrue(screen') /\ VisibleDevices(screen') = VisibleDevices(shown)
        BY <1>12, <3>1, CapturedFacts
      <3>3. SameBut(screen', shown, {"frames", "cursor"})
        BY <3>2 DEF SameBut
      <3>4. IsRight(screen') /\ screen'.generation = shown.generation
        BY <1>9, <3>2, <3>3, FramedRight
      <3>5. \A f \in ScreenFields \ {"frames"} : screen'[f] = shown[f]
        BY <1>12, <3>2, SameFields
      <3>6. screen'.cursor = shown.cursor
        BY <3>5 DEF ScreenFields
      <3>7. shown.cursor \in 1..Len(shown.frames) /\ DOMAIN shown.frames = 1..Len(shown.frames) /\ Len(shown.frames) \in Nat
        BY <1>12, FramesOf
      <3>8. shown.cursor # 1 => shown.cursor - 1 \in DOMAIN shown.frames \ {shown.cursor}
        BY <3>7
      <3> QED BY <1>5, <1>9, <1>11, <2>2, <3>2, <3>4, <3>6, <3>8
    <2> QED BY <2>1, <2>2
  <1>14. asOpened' = Forgotten /\ behind' = [at |-> screen'.cursor - 1, frame |-> CurrentFrame(screen)] /\ filterLine' = filterLine
    BY <1>4 DEF Leaves
  <1>15. ViewInv'
    BY <1>2, <1>3, <1>13, <1>14, LeavesInv
  <1> QED BY <1>13, <1>15 DEF RefreshKeeps

-----------------------------------------------------------------------------
(* The specification of the device view *)

LEMMA ViewStarts ==
    ASSUME ViewInit
    PROVE  ViewInv
PROOF
  <1>1. HistorySize \in Nat \ {0} /\ IsLeeway(leeway)
    BY ViewAssumption DEF ViewInit
  <1>2. /\ screen = [devices |-> <<>>, tagged |-> {}, compliant |-> {}, generation |-> 0, reads |-> 0, now |-> 0,
                     draft |-> "empty", applied |-> "empty", order |-> "up", picked |-> Unpicked,
                     cache |-> [key |-> <<>>, rows |-> <<>>],
                     simple |-> [r \in SimpleRoutes |-> [filter |-> "empty", row |-> 0]],
                     frames |-> <<NewFrame("devices")>>, cursor |-> 1,
                     daemon |-> TRUE, profile |-> leeway.profile, wanted |-> "none"]
        /\ filterLine = NoFilterLine /\ asOpened = Forgotten /\ behind = NoPlace
    BY DEF ViewInit
  <1> DEFINE only == <<NewFrame("devices")>>
  <1>3. only \in Seq(Frames) /\ Len(only) = 1 /\ DOMAIN only = 1..1 /\ only[1].draft = only[1].applied
        /\ only[1].route = "devices"
    <2>1. IsFrame(NewFrame("devices")) /\ NewFrame("devices").route = "devices"
      BY FramesAreFrames DEF Places
    <2> QED BY <2>1 DEF IsFrame
  <1> HIDE DEF only
  <1>4. screen.simple \in SimpleViews
    <2>1. [filter |-> "empty", row |-> 0] \in SimpleView
      BY DEF SimpleView, Inputs, Expressions
    <2>2. screen.simple = [r \in SimpleRoutes |-> [filter |-> "empty", row |-> 0]]
      BY <1>2
    <2> QED BY <2>1, <2>2 DEF SimpleViews
  <1>5. DOMAIN screen = ScreenFields
    BY <1>2 DEF ScreenFields
  <1>6. IsFleet(screen.devices) /\ screen.devices = <<>> /\ DOMAIN screen.devices = {}
    BY <1>2 DEF IsFleet
  <1>7. screen.frames = only /\ screen.cursor = 1
    BY <1>2 DEF only
  <1>8. IsShown(screen)
    <2>1. /\ screen.generation \in Nat /\ screen.reads \in Nat /\ screen.now \in Nat /\ screen.picked \in Nat
          /\ screen.applied \in Expressions /\ screen.draft = screen.applied /\ screen.order \in Orders
          /\ screen.daemon \in BOOLEAN /\ screen.profile \in BOOLEAN /\ screen.wanted \in {"none", "users"}
      BY <1>1, <1>2 DEF Unpicked, Expressions, Orders, IsLeeway
    <2>2. /\ screen.frames \in Seq(Frames) /\ screen.cursor \in DOMAIN screen.frames /\ Len(screen.frames) <= HistorySize
          /\ \A i \in DOMAIN screen.frames : screen.frames[i].draft = screen.frames[i].applied
      <3>1. \A i \in DOMAIN only : only[i].draft = only[i].applied
        BY <1>3
      <3>2. 1 \in DOMAIN only /\ Len(only) <= HistorySize
        BY <1>1, <1>3
      <3> QED BY <1>3, <1>7, <3>1, <3>2
    <2> QED BY <1>4, <1>5, <1>6, <2>1, <2>2 DEF IsShown
  <1>9. CacheTrue(screen)
    BY <1>2 DEF CacheTrue
  <1>10. VisibleDevices(screen) = {} /\ screen.picked = Unpicked /\ screen.wanted = "none"
    BY <1>2, <1>6 DEF VisibleDevices
  <1>11. IsRight(screen)
    BY <1>8, <1>9, <1>10 DEF IsRight, WantedFits, PickFits, HasPick
  <1>12. LineFits(filterLine, screen) /\ OpenedFits(asOpened, filterLine, screen) /\ BehindFits(behind, screen)
    BY <1>2 DEF LineFits, OpenedFits, Forgotten, BehindFits, NoPlace
  <1> QED BY <1>1, <1>11, <1>12 DEF ViewInv

\* Every step keeps the invariant, and the selection over a refresh.
LEMMA ViewSteps ==
    ASSUME ViewInv, [ViewNext]_viewVars
    PROVE  ViewInv' /\ RefreshKeeps
PROOF
  <1>1. CASE UNCHANGED viewVars
    <2>1. leeway' = leeway /\ screen' = screen /\ filterLine' = filterLine /\ asOpened' = asOpened /\ behind' = behind
      BY <1>1 DEF viewVars
    <2> QED BY <2>1 DEF ViewInv, RefreshKeeps
  <1>2. CASE SourceReadBegins \/ Ticks
    BY <1>2, CountsKeep
  <1>3. CASE SourceAnswers \/ Invalidates
    BY <1>3, AnswersKeep
  <1>4. CASE Draws
    BY <1>4, DrawsKeep
  <1>5. CASE LosesDaemon
    BY <1>5, LosesDaemonKeeps
  <1>6. CASE ProfileAnswers
    BY <1>6, ProfileAnswersKeeps
  <1>7. CASE MovesPick
    BY <1>7, MovesPickKeeps
  <1>8. CASE MovesRow
    BY <1>8, MovesRowKeeps
  <1>9. CASE Sorts
    BY <1>9, SortsKeep
  <1>10. CASE OpensFilter
    BY <1>10, OpensFilterKeeps
  <1>11. CASE Accepts
    BY <1>11, AcceptsKeep
  <1>12. CASE Escapes
    BY <1>12, EscapesGiveBack
  <1>13. ASSUME NEW input \in Expressions \cup {"invalid"}, Types(input)
         PROVE  ViewInv' /\ RefreshKeeps
    BY <1>13, TypesKeep
  <1>14. ASSUME NEW route \in Places, Navigates(route)
         PROVE  ViewInv' /\ RefreshKeeps
    BY <1>14, NavigatesKeeps
  <1>15. ASSUME NEW step \in {-1, 1}, MovesHistory(step)
         PROVE  ViewInv' /\ RefreshKeeps
    BY <1>15, MovesHistoryGivesBack
  <1>16. ASSUME NEW expression \in Expressions, NEW order \in {"up", "down"}, AppliesSavedView(expression, order)
         PROVE  ViewInv' /\ RefreshKeeps
    BY <1>16, AppliesSavedViewKeeps
  <1> QED BY <1>1, <1>2, <1>3, <1>4, <1>5, <1>6, <1>7, <1>8, <1>9, <1>10, <1>11, <1>12, <1>13, <1>14, <1>15, <1>16
        DEF ViewNext

\* However many devices there are, whatever lists answer in whatever order with
\* the ticks, the keys and the changes of route: the rows of a valid cache are
\* the list's, a visible device is selected while there is one, a refresh keeps
\* the selection, Esc gives back what there was when the line opened, and a
\* view of the history is as it was left.
THEOREM SelectionKept == ViewSpec => SelectionIsKept
PROOF
  <1>1. ViewInit => ViewInv
    BY ViewStarts
  <1>2. ViewInv /\ [ViewNext]_viewVars => ViewInv'
    BY ViewSteps
  <1> DEFINE Kept == /\ screen'.cache.key = CacheKey(screen') => screen'.cache.rows = VisibleFor(screen')
                     /\ screen'.draft = screen'.applied
                     /\ screen'.applied # "recent" =>
                            IF VisibleDevices(screen') = {} THEN screen'.picked = Unpicked
                            ELSE screen'.picked \in VisibleDevices(screen')
                     /\ screen'.generation # screen.generation /\ screen'.reads = screen.reads => KeepsPick(screen, screen')
                     /\ asOpened.known /\ Escapes =>
                            /\ <<screen'.draft, screen'.applied, screen'.simple>>
                                   = <<asOpened.draft, asOpened.applied, asOpened.simple>>
                            /\ Route(screen) = "devices" => KeepsPick(asOpened, screen')
                     /\ behind.at # 0 /\ behind'.at = screen.cursor /\ screen'.cursor = behind.at
                            /\ (\E step \in {-1, 1} : MovesHistory(step)) =>
                            /\ Route(screen') = behind.frame.route
                            /\ Route(screen') = "devices" =>
                                  /\ <<screen'.draft, screen'.applied, screen'.order>>
                                         = <<behind.frame.draft, behind.frame.applied, behind.frame.order>>
                                  /\ KeepsPick(behind.frame, screen')
  <1>3. ViewInv /\ [ViewNext]_viewVars => [Kept]_viewVars
    <2> SUFFICES ASSUME ViewInv, [ViewNext]_viewVars
                 PROVE  Kept
      OBVIOUS
    <2>1. ViewInv' /\ RefreshKeeps
      BY ViewSteps
    <2>2. IsRight(screen') /\ IsShown(screen') /\ CacheTrue(screen') /\ PickFits(screen') /\ screen'.draft = screen'.applied
      BY <2>1 DEF ViewInv, IsRight, IsShown
    <2>3. screen'.cache.key = CacheKey(screen') => screen'.cache.rows = VisibleFor(screen')
      BY <2>2, CacheHolds
    <2>4. Escapes => EscapeGivesBack
      BY EscapesGiveBack
    <2>5. (\E step \in {-1, 1} : MovesHistory(step)) => HistoryGivesBack
      BY MovesHistoryGivesBack
    <2> QED BY <2>1, <2>2, <2>3, <2>4, <2>5 DEF PickFits, HasPick, RefreshKeeps, EscapeGivesBack, HistoryGivesBack
  <1> QED BY <1>1, <1>2, <1>3, PTL DEF ViewSpec, SelectionIsKept

\* Every list that is shown has each device once, the history has a current
\* view and no more frames than its capacity, and no filter's text is apart
\* from what is applied.
THEOREM ViewTypeCorrect == ViewSpec => []IsShown(screen)
PROOF
  <1>1. ViewInit => ViewInv
    BY ViewStarts
  <1>2. ViewInv /\ [ViewNext]_viewVars => ViewInv'
    BY ViewSteps
  <1>3. ViewInv => IsShown(screen)
    BY DEF ViewInv, IsRight
  <1> QED BY <1>1, <1>2, <1>3, PTL DEF ViewSpec

-----------------------------------------------------------------------------
(* SavedViews: the inductive invariant *)

ViewSorts == {"up", "down"}
FileSorts == ViewSorts \cup {"columnless"}

\* A term as the parser makes it, or a saved clause.
FitTerms ==
    {t \in Terms :
        /\ t.kind # "text" => t.field \in DOMAIN Schema
        /\ t.kind = "field" /\ t.how \notin Comparisons =>
            /\ t.how = "none" /\ t.field # "lastSeen"
            /\ t.field = "online" => \A i \in DOMAIN t.values : t.values[i] \in Schema["online"].vocabulary
        /\ t.kind = "structured" => t.how \in {"exact", "contains", "starts"}
        /\ t.how \notin Comparisons => t.values # <<>>}

\* The terms of a filter without negation list what those that it was saved from list, or less.
Narrows(terms, was) == Plain(was) => \A d \in Machines : IsListed(terms, d) => IsListed(was, d)

FitViews ==
    {v \in [title : Titles, sort : FileSorts, filters : Seq(Clauses), was : Seq(FitTerms)] : Narrows(Reopened(v.filters), v.was)}

Histories == {NotOpen} \cup [open : {TRUE}, was : Seq(FitTerms), sort : ViewSorts]

ShelfTypeOK ==
    /\ whims \in [acts : Nat, lines : SUBSET Seq(Tokens), faults : Nat, written : Seq(FitViews)]
    /\ panel \in [draft : Seq(Tokens), applied : Seq(FitTerms), sort : ViewSorts]
    /\ shelf \in [known : BOOLEAN, memory : Seq(FitViews), disk : Seq(FitViews)]
    /\ opened \in Histories

\* What is known was read and can be read again; a file that was refused is as it was found.
ShelfHolds(s) ==
    /\ s.known = Loads(whims.written)
    /\ IF s.known THEN Loads(s.disk) /\ Loads(s.memory) ELSE s.disk = whims.written
OpenHolds == opened.open => panel.sort = opened.sort /\ Narrows(panel.applied, opened.was)
ShelfInv == ShelfTypeOK /\ ShelfHolds(shelf) /\ OpenHolds

LEMMA SchemaFacts ==
    /\ DOMAIN Schema = {"name", "owner", "online", "lastSeen", "property", "approval"}
    /\ DOMAIN Registered = {"name", "owner", "online", "lastSeen", "approval"}
    /\ Schema["lastSeen"].operators = Comparisons
    /\ \A f \in DOMAIN Schema : f # "lastSeen" => Schema[f].operators \subseteq {"match", "starts"}
    /\ Schema["online"].vocabulary = {True, False, Unsure}
    /\ \A f \in DOMAIN Registered : "starts_with" \notin Registered[f]
BY DEF Schema, Registered, Comparisons

\* The words of the three vocabularies that a device's liveness is told in.
LEMMA WordFacts ==
    /\ True # Online /\ True # Offline /\ False # Online /\ False # Offline
    /\ Online # Offline /\ Unsure # Online /\ Unsure # Offline /\ True # Unsure /\ False # Unsure
BY DEF True, False, Online, Offline, Unsure

LEMMA MachineFacts ==
    ASSUME NEW d \in Machines
    PROVE  /\ d.name \in Words /\ d.owner \in Words
           /\ d.liveness \in {Online, Offline, Unsure}
PROOF
  <1>1. PICK name, owner, liveness, age, ssh, listed, authorized :
          /\ name \in Words /\ owner \in Words /\ liveness \in {Online, Offline, Unsure}
          /\ d = Computer(name, owner, liveness, age, ssh, listed, authorized)
    <2>1. <<1>> \in Words /\ <<2>> \in Words /\ <<1, 2>> \in Words /\ <<2, 1>> \in Words
      BY DEF Words
    <2>2. \/ d = Computer(<<1>>,    <<1>>,    Online,  0,  TRUE,  TRUE,  Approved)
          \/ d = Computer(<<1, 2>>, <<1, 2>>, Offline, 1,  FALSE, TRUE,  Pending)
          \/ d = Computer(<<2, 1>>, <<2, 1>>, Unsure,  2,  TRUE,  FALSE, Unsure)
          \/ d = Computer(<<2>>,    <<2>>,    Online,  -1, FALSE, TRUE,  Unsure)
      BY DEF Machines
    <2> QED BY <2>1, <2>2
  <1> QED BY <1>1 DEF Computer

-----------------------------------------------------------------------------
(* What the operators return *)

LEMMA FitTermFacts ==
    ASSUME NEW t \in FitTerms
    PROVE  /\ t.kind \in {"text", "field", "structured"} /\ t.field \in DOMAIN Schema \cup {"none"} /\ t.negated \in BOOLEAN
           /\ t.values \in Seq(Words) /\ t.bound \in Int
           /\ t.how \in Comparisons \cup {"none", "exact", "contains", "starts"}
           /\ t.kind # "text" => t.field \in DOMAIN Schema
           /\ t.kind = "field" /\ t.how \notin Comparisons =>
                /\ t.how = "none" /\ t.field # "lastSeen"
                /\ t.field = "online" => \A i \in DOMAIN t.values : t.values[i] \in Schema["online"].vocabulary
           /\ t.kind = "structured" => t.how \in {"exact", "contains", "starts"}
           /\ t.how \notin Comparisons => t.values # <<>>
BY DEF FitTerms, Terms

LEMMA ClauseFacts ==
    ASSUME NEW c \in Clauses
    PROVE  /\ c.field \in DOMAIN Registered /\ c.values \in Seq(Words) /\ c.bound \in Int
           /\ c.operator \in {"equals", "not_equals", "contains", "starts_with", "<", ">"}
           /\ c.operator \notin {"<", ">"} => c.values # <<>>
BY DEF Clauses

LEMMA NoWords == <<>> \in Seq(Words)
OBVIOUS

LEMMA ParsedTermFits ==
    ASSUME NEW tok \in Tokens, Parses(tok)
    PROVE  ParsedTerm(tok) \in FitTerms
PROOF
  <1>1. /\ tok.negated \in BOOLEAN /\ tok.values \in Seq(Words)
        /\ tok.bound \in Int /\ (tok.field = "none" \/ tok.operator \notin Comparisons => tok.values # <<>>)
    BY DEF Tokens
  <1>2. CASE tok.field = "none"
    <2>1. ParsedTerm(tok) = Term("text", "none", FALSE, tok.values, "none", 0)
      BY <1>2 DEF ParsedTerm, TextTerm
    <2>2. "none" \notin Comparisons
      BY DEF Comparisons
    <2>3. /\ ParsedTerm(tok) \in Terms
          /\ ParsedTerm(tok).kind = "text" /\ ParsedTerm(tok).values = tok.values /\ ParsedTerm(tok).how = "none"
      BY <1>1, <2>1 DEF Term, Terms
    <2> QED BY <1>1, <1>2, <2>2, <2>3 DEF FitTerms
  <1>3. CASE tok.field # "none"
    <2>1. /\ tok.field \in DOMAIN Schema /\ tok.operator \in Schema[tok.field].operators
          /\ tok.operator = "match" /\ Schema[tok.field].vocabulary # {}
             => \A i \in DOMAIN tok.values : tok.values[i] \in Schema[tok.field].vocabulary
      BY <1>3 DEF Parses
    <2>2. /\ tok.operator \in Comparisons \cup {"match", "starts"}
          /\ tok.operator \in {"match", "starts"} => tok.field # "lastSeen"
      BY <2>1, SchemaFacts DEF Comparisons
    <2>3. "match" \notin Comparisons /\ "starts" \notin Comparisons /\ "none" \notin Comparisons
      BY DEF Comparisons
    <2>4. CASE tok.operator \in Comparisons
      <3>1. ParsedTerm(tok) = Term("field", tok.field, tok.negated, <<>>, tok.operator, tok.bound)
        BY <1>3, <2>3, <2>4 DEF ParsedTerm
      <3> QED BY <1>1, <2>1, <2>4, <3>1, NoWords DEF Term, Terms, FitTerms
    <2>5. CASE tok.operator = "starts"
      <3>1. ParsedTerm(tok) = Term("structured", tok.field, tok.negated, tok.values, "starts", 0)
        BY <1>3, <2>3, <2>5 DEF ParsedTerm
      <3> QED BY <1>1, <2>1, <2>3, <2>5, <3>1 DEF Term, Terms, FitTerms
    <2>6. CASE tok.operator = "match"
      <3>1. ParsedTerm(tok) = Term("field", tok.field, tok.negated, tok.values, "none", 0)
        BY <1>3, <2>3, <2>6 DEF ParsedTerm
      <3>2. tok.field = "online" => \A i \in DOMAIN tok.values : tok.values[i] \in Schema["online"].vocabulary
        BY <2>1, <2>6, SchemaFacts
      <3> QED BY <1>1, <2>1, <2>2, <2>3, <2>6, <3>1, <3>2 DEF Term, Terms, FitTerms
    <2> QED BY <2>2, <2>4, <2>5, <2>6
  <1> QED BY <1>2, <1>3

LEMMA ClauseOfFits ==
    ASSUME NEW t \in FitTerms, CanSave(t)
    PROVE  ClauseOf(t) \in Clauses
PROOF
  <1>1. t.field \in DOMAIN Registered
    BY FitTermFacts, SchemaFacts DEF CanSave
  <1>2. t.how \in Comparisons => t.how \in {"<", ">"}
    BY DEF CanSave
  <1>3. ClauseOf(t).operator \notin {"<", ">"} => t.how \notin Comparisons
    BY <1>2 DEF ClauseOf
  <1>4. ClauseOf(t).operator \in {"equals", "not_equals", "contains", "starts_with", "<", ">"}
    BY <1>2 DEF ClauseOf
  <1> QED BY <1>1, <1>3, <1>4, FitTermFacts DEF Clauses, ClauseOf

LEMMA ClauseKeepsField ==
    ASSUME NEW t
    PROVE  ClauseOf(t).field = t.field
BY DEF ClauseOf

LEMMA TermOfFits ==
    ASSUME NEW c \in Clauses
    PROVE  TermOf(c) \in FitTerms /\ TermOf(c).field = c.field
PROOF
  <1>1. c.field \in DOMAIN Schema
    BY ClauseFacts, SchemaFacts
  <1>2. {"<", ">"} \subseteq Comparisons /\ {"exact", "contains", "starts"} \cap Comparisons = {}
    BY DEF Comparisons
  <1>3. CASE c.operator \in {"<", ">"}
    <2>1. TermOf(c) = Term("field", c.field, FALSE, <<>>, c.operator, c.bound)
      BY <1>3 DEF TermOf
    <2> QED BY <1>1, <1>2, <1>3, <2>1, ClauseFacts, NoWords DEF Term, Terms, FitTerms
  <1>4. CASE c.operator \notin {"<", ">"}
    <2>1. PICK negated \in BOOLEAN, how \in {"exact", "contains", "starts"} :
            TermOf(c) = Term("structured", c.field, negated, c.values, how, 0)
      BY <1>4 DEF TermOf
    <2> QED BY <1>1, <1>2, <1>4, <2>1, ClauseFacts DEF Term, Terms, FitTerms
  <1> QED BY <1>3, <1>4

LEMMA ReopenedFits ==
    ASSUME NEW filters \in Seq(Clauses)
    PROVE  Reopened(filters) \in Seq(FitTerms)
PROOF
  <1>1. \A i \in DOMAIN filters : TermOf(filters[i]) \in FitTerms
    BY TermOfFits
  <1> QED BY <1>1 DEF Reopened

LEMMA TokenOfFits ==
    ASSUME NEW c \in Clauses
    PROVE  TokenOf(c) \in Tokens
PROOF
  <1>1. c.field \in DOMAIN Schema /\ c.field # "none"
    BY ClauseFacts, SchemaFacts
  <1>2. TokenOf(c).operator \in Comparisons \cup {"match", "starts"} /\ (TokenOf(c).operator \notin Comparisons => c.operator \notin {"<", ">"})
    BY DEF TokenOf, Comparisons
  <1>3. TokenOf(c).field \in DOMAIN Schema \cup {"lastseen"} /\ TokenOf(c).field # "none"
    BY <1>1 DEF TokenOf
  <1> QED BY <1>2, <1>3, ClauseFacts DEF TokenOf, Tokens

-----------------------------------------------------------------------------
(* What a clause lists of what the term it was made of listed *)

LEMMA WordIncludesItself ==
    ASSUME NEW w \in Words
    PROVE  Includes(w, w)
PROOF
  <1>1. Len(w) \in Nat /\ SubSeq(w, 0 + 1, 0 + Len(w)) = w
    BY DEF Words
  <1>2. 0 \in 0..(Len(w) - Len(w))
    BY <1>1
  <1> QED BY <1>1, <1>2 DEF Includes

\* A clause compares as its term does.
LEMMA ComparisonKept ==
    ASSUME NEW t \in FitTerms, CanSave(t), t.how \in Comparisons
    PROVE  TermOf(ClauseOf(t)) = Term("field", t.field, FALSE, <<>>, t.how, t.bound) /\ t.kind = "field" /\ ~t.negated
PROOF
  <1>1. t.how \in {"<", ">"} /\ ~t.negated /\ t.kind # "text"
    BY DEF CanSave
  <1>2. t.kind = "field"
    BY <1>1, FitTermFacts
  <1>3. ClauseOf(t).operator = t.how /\ ClauseOf(t).field = t.field /\ ClauseOf(t).bound = t.bound
    BY DEF ClauseOf
  <1> QED BY <1>1, <1>2, <1>3 DEF TermOf

\* A clause that is not a comparison, and that the registry accepts, says exactly or contains.
LEMMA ClauseOfWord ==
    ASSUME NEW t \in FitTerms, CanSave(t), ~t.negated, t.how \notin Comparisons, ClauseOf(t).operator \in Registered[t.field]
    PROVE  \/ t.how = "contains" /\ TermOf(ClauseOf(t)) = Term("structured", t.field, FALSE, t.values, "contains", 0)
           \/ t.how \in {"exact", "none"} /\ TermOf(ClauseOf(t)) = Term("structured", t.field, FALSE, t.values, "exact", 0)
PROOF
  <1>1. t.field \in DOMAIN Registered
    BY FitTermFacts, SchemaFacts DEF CanSave
  <1>2. t.how \in {"none", "exact", "contains", "starts"}
    BY FitTermFacts
  <1>3. ClauseOf(t).field = t.field /\ ClauseOf(t).values = t.values
    BY DEF ClauseOf
  <1>4. t.how # "starts"
    <2>1. t.how = "starts" => ClauseOf(t).operator = "starts_with"
      BY DEF ClauseOf
    <2> QED BY <1>1, <2>1, SchemaFacts
  <1>5. CASE t.how = "contains"
    <2>1. ClauseOf(t).operator = "contains"
      BY <1>5 DEF ClauseOf
    <2> QED BY <1>3, <1>5, <2>1 DEF TermOf
  <1>6. CASE t.how \in {"exact", "none"}
    <2>1. ClauseOf(t).operator = "equals"
      BY <1>6 DEF ClauseOf
    <2> QED BY <1>3, <1>6, <2>1 DEF TermOf
  <1> QED BY <1>2, <1>4, <1>5, <1>6

LEMMA TermNarrows ==
    ASSUME NEW t \in FitTerms, CanSave(t), ~t.negated, ClauseOf(t).operator \in Registered[t.field],
           NEW d \in Machines
    PROVE  /\ LocalHolds(TermOf(ClauseOf(t)), d) => LocalHolds(t, d)
           /\ AdminHolds(TermOf(ClauseOf(t)), d) => AdminHolds(t, d)
PROOF
  <1> DEFINE r == TermOf(ClauseOf(t))
  <1>1. t.negated = FALSE /\ t.kind \in {"field", "structured"}
    BY FitTermFacts DEF CanSave
  <1>2. CASE t.how \in Comparisons
    <2>1. /\ r.kind = "field" /\ r.field = t.field /\ r.negated = FALSE /\ r.how = t.how /\ r.bound = t.bound
          /\ t.kind = "field" /\ t.how # "none"
      BY <1>2, ComparisonKept DEF Term, Comparisons
    <2> HIDE DEF r
    <2>2. LocalHolds(r, d) => LocalHolds(t, d)
      BY <1>1, <2>1 DEF LocalHolds
    <2>3. AdminHolds(r, d) => AdminHolds(t, d)
      BY <1>1, <2>1 DEF AdminHolds
    <2> QED BY <2>2, <2>3 DEF r
  <1>3. CASE t.how \notin Comparisons /\ t.kind = "structured"
    <2>1. r.kind = "structured" /\ r.field = t.field /\ r.negated = FALSE /\ r.values = t.values /\ r.how = t.how
      BY <1>3, ClauseOfWord, FitTermFacts DEF Term
    <2> HIDE DEF r
    <2>2. LocalHolds(r, d) => LocalHolds(t, d)
      BY <1>1, <1>3, <2>1 DEF LocalHolds
    <2>3. AdminHolds(r, d) => AdminHolds(t, d)
      BY <1>1, <1>3, <2>1 DEF AdminHolds
    <2> QED BY <2>2, <2>3 DEF r
  <1>4. CASE t.how \notin Comparisons /\ t.kind = "field"
    <2>1. /\ r.kind = "structured" /\ r.field = t.field /\ r.negated = FALSE /\ r.values = t.values /\ r.how = "exact"
          /\ t.how = "none"
      BY <1>4, ClauseOfWord, FitTermFacts DEF Term
    <2>2. /\ t.values \in Seq(Words) /\ t.values # <<>> /\ 1 \in DOMAIN t.values
          /\ t.field \in {"name", "owner", "online", "approval"}
          /\ t.field = "online" => t.values[1] \in {True, False, Unsure}
      <3>1. t.values \in Seq(Words) /\ t.values # <<>>
        BY <1>4, FitTermFacts
      <3>2. 1 \in DOMAIN t.values
        BY <3>1
      <3> QED BY <1>4, <3>1, <3>2, FitTermFacts, SchemaFacts DEF CanSave
    <2> HIDE DEF r
    <2>3. LocalHolds(r, d) => WordFits(t.field, t.values[1], d) \/ t.field \in AdminFields
      <3>1. SUFFICES ASSUME LocalHolds(r, d), t.field \notin AdminFields
                     PROVE  WordFits(t.field, t.values[1], d)
        OBVIOUS
      <3>2. CASE t.field \in {"name", "owner"}
        <4>1. d[t.field] = t.values[1]
          BY <2>1, <3>1, <3>2 DEF LocalHolds, TextMatches
        <4>2. d[t.field] \in Words
          BY <3>2, MachineFacts
        <4> QED BY <3>2, <4>1, <4>2, WordIncludesItself DEF WordFits
      <3>3. CASE t.field = "online"
        <4>1. d.liveness = t.values[1]
          BY <2>1, <3>1, <3>3 DEF LocalHolds, TextMatches
        <4>2. d.liveness = Unsure /\ t.values[1] = Unsure
          BY <2>2, <3>3, <4>1, MachineFacts, WordFacts
        <4> QED BY <3>3, <4>2, WordFacts DEF WordFits
      <3> QED BY <2>2, <3>1, <3>2, <3>3 DEF AdminFields
    <2>4. LocalHolds(r, d) => LocalHolds(t, d)
      BY <1>1, <1>4, <2>1, <2>2, <2>3 DEF LocalHolds
    <2>5. AdminHolds(r, d) => AdminHolds(t, d)
      <3>1. WordFits(t.field, t.values[1], d) \in BOOLEAN
        BY <2>2 DEF WordFits, Includes
      <3>2. AdminHolds(r, d) => WordFits(t.field, t.values[1], d)
        BY <2>1, <3>1 DEF AdminHolds
      <3>3. WordFits(t.field, t.values[1], d) => AdminHolds(t, d)
        BY <1>1, <1>4, <2>1, <2>2 DEF AdminHolds
      <3> QED BY <3>2, <3>3
    <2> QED BY <2>4, <2>5 DEF r
  <1> QED BY <1>1, <1>2, <1>3, <1>4

\* What is captured of a filter and stored lists nothing that the filter did not.
LEMMA CaptureNarrows ==
    ASSUME NEW terms \in Seq(FitTerms), \A i \in DOMAIN terms : CanSave(terms[i]),
           \A i \in DOMAIN terms : ClauseOf(terms[i]).operator \in Registered[terms[i].field]
    PROVE  LET filters == [i \in DOMAIN terms |-> ClauseOf(terms[i])] IN
           /\ filters \in Seq(Clauses) /\ Reopened(filters) \in Seq(FitTerms)
           /\ Narrows(Reopened(filters), terms)
PROOF
  <1> DEFINE filters == [i \in DOMAIN terms |-> ClauseOf(terms[i])]
             again == Reopened(filters)
  <1>1. \A i \in DOMAIN terms : terms[i] \in FitTerms /\ ClauseOf(terms[i]) \in Clauses
    BY ClauseOfFits
  <1>2. filters \in Seq(Clauses) /\ DOMAIN filters = DOMAIN terms
    BY <1>1
  <1>3. /\ DOMAIN again = DOMAIN terms
        /\ \A i \in DOMAIN terms : again[i] = TermOf(ClauseOf(terms[i])) /\ again[i] \in FitTerms /\ again[i].field = terms[i].field
    BY <1>1, TermOfFits, ClauseKeepsField DEF Reopened
  <1>4. again \in Seq(FitTerms)
    BY <1>3 DEF Reopened
  <1> HIDE DEF again, filters
  <1>5. Narrows(again, terms)
    <2>1. SUFFICES ASSUME Plain(terms), NEW d \in Machines, IsListed(again, d)
                   PROVE  IsListed(terms, d)
      BY DEF Narrows
    <2>2. \A i \in DOMAIN terms : /\ LocalHolds(again[i], d) => LocalHolds(terms[i], d)
                                  /\ AdminHolds(again[i], d) => AdminHolds(terms[i], d)
      BY <1>1, <1>3, <2>1, TermNarrows DEF Plain
    <2> QED BY <1>3, <2>1, <2>2 DEF IsListed
  <1> QED BY <1>2, <1>4, <1>5 DEF again, filters

-----------------------------------------------------------------------------
(* Lists of views *)

\* A name is a view's own.
LEMMA LoadsFacts ==
    ASSUME NEW views
    PROVE  Loads(views) <=>
           /\ \A i \in DOMAIN views : Valid(views[i])
           /\ \A i \in DOMAIN views : \A j \in DOMAIN views : views[i].title = views[j].title => i = j
BY DEF Loads

LEMMA AppendedViews ==
    ASSUME NEW views \in Seq(FitViews), Loads(views), NEW v \in FitViews, Valid(v), ~Named(views, v.title)
    PROVE  Append(views, v) \in Seq(FitViews) /\ Loads(Append(views, v))
PROOF
  <1> DEFINE more == Append(views, v)
  <1>1. /\ more \in Seq(FitViews) /\ DOMAIN views = 1..Len(views) /\ DOMAIN more = 1..(Len(views) + 1) /\ Len(views) \in Nat
        /\ \A i \in 1..Len(views) : more[i] = views[i]
        /\ more[Len(views) + 1] = v
    OBVIOUS
  <1> HIDE DEF more
  <1>2. \A i \in DOMAIN more : Valid(more[i])
    <2> TAKE i \in DOMAIN more
    <2>1. CASE i = Len(views) + 1
      BY <1>1, <2>1
    <2>2. CASE i # Len(views) + 1
      <3>1. i \in DOMAIN views /\ more[i] = views[i]
        BY <1>1, <2>2
      <3> QED BY <3>1, LoadsFacts
    <2> QED BY <2>1, <2>2
  <1>3. ASSUME NEW i \in DOMAIN more, NEW j \in DOMAIN more, more[i].title = more[j].title
        PROVE  i = j
    <2>1. \A k \in DOMAIN views : views[k].title # v.title
      BY DEF Named
    <2>2. CASE i \in DOMAIN views /\ j \in DOMAIN views
      BY <1>1, <1>3, <2>2, LoadsFacts
    <2>3. CASE i = Len(views) + 1
      BY <1>1, <1>3, <2>1, <2>3
    <2>4. CASE j = Len(views) + 1
      BY <1>1, <1>3, <2>1, <2>4
    <2> QED BY <1>1, <2>2, <2>3, <2>4
  <1>4. Loads(more)
    BY <1>2, <1>3, LoadsFacts
  <1> QED BY <1>1, <1>4 DEF more

LEMMA ReplacedViews ==
    ASSUME NEW views \in Seq(FitViews), Loads(views), NEW title, NEW v \in FitViews, Valid(v),
           v.title = title \/ ~Named(views, v.title)
    PROVE  With(views, title, v) \in Seq(FitViews) /\ Loads(With(views, title, v))
PROOF
  <1> DEFINE other == With(views, title, v)
  <1>1. /\ DOMAIN other = DOMAIN views /\ DOMAIN views = 1..Len(views) /\ Len(views) \in Nat
        /\ \A i \in DOMAIN views : views[i] \in FitViews
        /\ \A i \in DOMAIN views : views[i].title = title => other[i] = v
        /\ \A i \in DOMAIN views : views[i].title # title => other[i] = views[i]
    BY DEF With
  <1>2. other \in Seq(FitViews)
    <2>1. other = [i \in 1..Len(views) |-> IF views[i].title = title THEN v ELSE views[i]]
      BY <1>1 DEF With
    <2> QED BY <1>1, <2>1
  <1> HIDE DEF other
  <1>3. \A i \in DOMAIN other : Valid(other[i])
    BY <1>1, LoadsFacts
  <1>4. ASSUME NEW i \in DOMAIN other, NEW j \in DOMAIN other, other[i].title = other[j].title
        PROVE  i = j
    <2>1. views[i].title = views[j].title => i = j
      BY <1>1, LoadsFacts
    <2>2. \A k \in DOMAIN views : views[k].title # title => views[k].title # v.title
      BY DEF Named
    <2> QED BY <1>1, <1>4, <2>1, <2>2
  <1>5. Loads(other)
    BY <1>3, <1>4, LoadsFacts
  <1> QED BY <1>2, <1>5 DEF other

LEMMA DeletedViews ==
    ASSUME NEW views \in Seq(FitViews), Loads(views), NEW place \in DOMAIN views
    PROVE  AllBut(views, place) \in Seq(FitViews) /\ Loads(AllBut(views, place))
PROOF
  <1> DEFINE rest == AllBut(views, place)
             was(i) == IF i < place THEN i ELSE i + 1
  <1>1. DOMAIN views = 1..Len(views) /\ Len(views) \in Nat /\ place \in 1..Len(views)
    OBVIOUS
  <1>2. /\ DOMAIN rest = 1..(Len(views) - 1)
        /\ \A i \in DOMAIN rest : rest[i] = views[was(i)] /\ was(i) \in DOMAIN views
    BY <1>1 DEF AllBut
  <1>3. \A i \in DOMAIN rest : \A j \in DOMAIN rest : was(i) = was(j) => i = j
    BY <1>1, <1>2
  <1>4. rest \in Seq(FitViews)
    <2>1. \A i \in 1..(Len(views) - 1) : (IF i < place THEN views[i] ELSE views[i + 1]) \in FitViews
      BY <1>1
    <2> QED BY <1>1, <2>1 DEF AllBut
  <1> HIDE DEF rest, was
  <1>5. \A i \in DOMAIN rest : Valid(rest[i])
    BY <1>2, LoadsFacts
  <1>6. \A i \in DOMAIN rest : \A j \in DOMAIN rest : rest[i].title = rest[j].title => i = j
    BY <1>2, <1>3, LoadsFacts
  <1>7. Loads(rest)
    BY <1>5, <1>6, LoadsFacts
  <1> QED BY <1>4, <1>7 DEF rest

\* A view by hand lists what its clauses say.
LEMMA ByHandFits == ByHand \subseteq FitViews
PROOF
  <1> SUFFICES ASSUME NEW v \in ByHand PROVE v \in FitViews
    OBVIOUS
  <1>1. /\ v \in [title : Titles, sort : {"up", "down", "columnless"}, filters : Seq(Clauses), was : Seq(Terms)]
        /\ v.was = Reopened(v.filters)
    BY DEF ByHand
  <1>2. v.filters \in Seq(Clauses)
    BY <1>1
  <1>3. v.was \in Seq(FitTerms)
    BY <1>1, <1>2, ReopenedFits
  <1>4. v \in [title : Titles, sort : FileSorts, filters : Seq(Clauses), was : Seq(FitTerms)]
    BY <1>1, <1>3 DEF FileSorts, ViewSorts
  <1>5. Narrows(Reopened(v.filters), v.was)
    BY <1>1 DEF Narrows
  <1> QED BY <1>4, <1>5 DEF FitViews

\* What a start reads of a file.
LEMMA ShelfRead ==
    ASSUME NEW disk \in Seq(FitViews)
    PROVE  /\ ShelfFrom(disk) \in [known : BOOLEAN, memory : Seq(FitViews), disk : Seq(FitViews)]
           /\ ShelfFrom(disk).known = Loads(disk) /\ ShelfFrom(disk).disk = disk
           /\ ShelfFrom(disk).known => ShelfFrom(disk).memory = disk
PROOF
  <1>1. Loads(disk) \in BOOLEAN /\ <<>> \in Seq(FitViews)
    BY DEF Loads
  <1> QED BY <1>1 DEF ShelfFrom

LEMMA FitViewFacts ==
    ASSUME NEW v \in FitViews
    PROVE  /\ v.title \in Titles /\ v.sort \in FileSorts /\ v.filters \in Seq(Clauses) /\ v.was \in Seq(FitTerms)
           /\ Narrows(Reopened(v.filters), v.was)
BY DEF FitViews

-----------------------------------------------------------------------------
(* The steps *)

LEMMA ShelfBegins == ShelfInit => ShelfInv
PROOF
  <1> SUFFICES ASSUME ShelfInit PROVE ShelfInv
    OBVIOUS
  <1>1. whims \in [acts : Nat, lines : SUBSET Seq(Tokens), faults : Nat, written : Seq(ByHand)]
    BY ShelfAssumption DEF ShelfInit
  <1>2. whims.written \in Seq(FitViews)
    <2>1. whims.written \in Seq(ByHand)
      BY <1>1
    <2> QED BY <2>1, ByHandFits
  <1>3. whims \in [acts : Nat, lines : SUBSET Seq(Tokens), faults : Nat, written : Seq(FitViews)]
    BY <1>1, <1>2
  <1>4. panel = NewPanel /\ shelf = ShelfFrom(whims.written) /\ opened = NotOpen
    BY DEF ShelfInit
  <1>5. panel \in [draft : Seq(Tokens), applied : Seq(FitTerms), sort : ViewSorts]
    BY <1>4 DEF NewPanel, ViewSorts
  <1>6. shelf \in [known : BOOLEAN, memory : Seq(FitViews), disk : Seq(FitViews)] /\ ShelfHolds(shelf)
    BY <1>2, <1>4, ShelfRead DEF ShelfHolds
  <1>7. opened \in Histories /\ OpenHolds
    BY <1>4 DEF Histories, OpenHolds, NotOpen
  <1> QED BY <1>3, <1>5, <1>6, <1>7 DEF ShelfInv, ShelfTypeOK

\* Every step leaves what is known of the file as it was, and spends the bounds.
LEMMA WhimsSpent ==
    ASSUME ShelfInv, ShelfNext
    PROVE  /\ whims' \in [acts : Nat, lines : SUBSET Seq(Tokens), faults : Nat, written : Seq(FitViews)]
           /\ whims'.written = whims.written
PROOF
  <1>1. whims \in [acts : Nat, lines : SUBSET Seq(Tokens), faults : Nat, written : Seq(FitViews)]
    BY DEF ShelfInv, ShelfTypeOK
  <1>2. whims.acts > 0
    BY DEF ShelfNext, Filters, SortsRows, Restarts, SavesView, ReplacesView, DeletesView, OpensView, RenamesView, Strokes
  <1>3. CASE Spends
    BY <1>1, <1>2, <1>3 DEF Spends
  <1>4. ASSUME NEW views, KeepsViews(views)
        PROVE  /\ whims' \in [acts : Nat, lines : SUBSET Seq(Tokens), faults : Nat, written : Seq(FitViews)]
               /\ whims'.written = whims.written
    <2>1. PICK failed \in BOOLEAN :
            /\ failed => whims.faults > 0
            /\ whims' = [whims EXCEPT !.acts = @ - 1, !.faults = IF failed THEN @ - 1 ELSE @]
      BY <1>4 DEF KeepsViews
    <2>2. PICK left \in Nat : left = IF failed THEN whims.faults - 1 ELSE whims.faults
      BY <1>1, <2>1
    <2>3. whims' = [whims EXCEPT !.acts = whims.acts - 1, !.faults = left]
      BY <1>1, <2>1, <2>2
    <2>4. whims.acts - 1 \in Nat
      BY <1>1, <1>2
    <2> QED BY <1>1, <2>3, <2>4
  <1> QED BY <1>3, <1>4 DEF ShelfNext, Filters, SortsRows, Restarts, SavesView, ReplacesView, DeletesView, OpensView, RenamesView

\* A list that can be read is kept, in memory and, unless the write fails, in the file.
LEMMA KeptViews ==
    ASSUME ShelfInv, NEW views \in Seq(FitViews), Loads(views), shelf.known, Strokes, KeepsViews(views),
           whims'.written = whims.written,
           whims' \in [acts : Nat, lines : SUBSET Seq(Tokens), faults : Nat, written : Seq(FitViews)]
    PROVE  ShelfInv'
PROOF
  <1>1. PICK failed \in BOOLEAN : shelf' = [shelf EXCEPT !.memory = views, !.disk = IF failed THEN @ ELSE views]
    BY DEF KeepsViews
  <1>2. shelf \in [known : BOOLEAN, memory : Seq(FitViews), disk : Seq(FitViews)] /\ ShelfHolds(shelf)
    BY DEF ShelfInv, ShelfTypeOK
  <1>3. /\ shelf' \in [known : BOOLEAN, memory : Seq(FitViews), disk : Seq(FitViews)]
        /\ shelf'.known = shelf.known /\ shelf'.memory = views /\ shelf'.disk \in {shelf.disk, views}
    BY <1>1, <1>2
  <1>4. ShelfHolds(shelf)'
    BY <1>2, <1>3 DEF ShelfHolds
  <1>5. panel' = panel /\ opened' = NotOpen
    BY DEF KeepsViews, Strokes
  <1>6. OpenHolds' /\ opened' \in Histories
    BY <1>5 DEF OpenHolds, NotOpen, Histories
  <1> QED BY <1>3, <1>4, <1>5, <1>6 DEF ShelfInv, ShelfTypeOK

LEMMA ShelfStep ==
    ASSUME ShelfInv, [ShelfNext]_shelfVars
    PROVE  ShelfInv'
PROOF
  <1>1. CASE UNCHANGED shelfVars
    BY <1>1 DEF shelfVars, ShelfInv, ShelfTypeOK, ShelfHolds, OpenHolds
  <1>2. CASE ShelfNext
    <2>1. /\ whims' \in [acts : Nat, lines : SUBSET Seq(Tokens), faults : Nat, written : Seq(FitViews)]
          /\ whims'.written = whims.written
      BY <1>2, WhimsSpent
    <2>2. /\ panel \in [draft : Seq(Tokens), applied : Seq(FitTerms), sort : ViewSorts]
          /\ whims \in [acts : Nat, lines : SUBSET Seq(Tokens), faults : Nat, written : Seq(FitViews)]
          /\ shelf \in [known : BOOLEAN, memory : Seq(FitViews), disk : Seq(FitViews)]
          /\ ShelfHolds(shelf)
      BY DEF ShelfInv, ShelfTypeOK
    <2>3. ASSUME shelf' = shelf, panel' \in [draft : Seq(Tokens), applied : Seq(FitTerms), sort : ViewSorts],
                 opened' \in Histories, OpenHolds'
          PROVE  ShelfInv'
      BY <2>1, <2>2, <2>3 DEF ShelfInv, ShelfTypeOK, ShelfHolds
    <2>4. opened' = NotOpen => opened' \in Histories /\ OpenHolds'
      BY DEF Histories, OpenHolds, NotOpen
    <2>5. ASSUME NEW line \in whims.lines \cup {panel.draft}, Filters(line)
          PROVE  ShelfInv'
      <3>1. line \in Seq(Tokens)
        BY <2>2
      <3>2. Parsed(line) \in Seq(FitTerms)
        <4>1. \A i \in DOMAIN line : ParsedTerm(line[i]) \in FitTerms
          BY <2>5, <3>1, ParsedTermFits DEF Filters, LineParses
        <4> QED BY <3>1, <4>1 DEF Parsed
      <3>3. panel' \in [draft : Seq(Tokens), applied : Seq(FitTerms), sort : ViewSorts]
        BY <2>2, <2>5, <3>1, <3>2 DEF Filters
      <3> QED BY <2>3, <2>4, <2>5, <3>3 DEF Filters, Strokes
    <2>6. CASE SortsRows
      <3>1. panel' \in [draft : Seq(Tokens), applied : Seq(FitTerms), sort : ViewSorts]
        BY <2>2, <2>6 DEF SortsRows, ViewSorts
      <3> QED BY <2>3, <2>4, <2>6, <3>1 DEF SortsRows, Strokes
    <2>7. CASE Restarts
      <3>1. /\ panel' \in [draft : Seq(Tokens), applied : Seq(FitTerms), sort : ViewSorts]
            /\ opened' = NotOpen
        BY <2>7 DEF Restarts, Strokes, NewPanel, ViewSorts
      <3>2. shelf' = ShelfFrom(shelf.disk)
        BY <2>7 DEF Restarts
      <3>3. shelf' \in [known : BOOLEAN, memory : Seq(FitViews), disk : Seq(FitViews)]
        BY <2>2, <3>2, ShelfRead
      <3>4. ShelfHolds(shelf)'
        BY <2>1, <2>2, <3>2, ShelfRead DEF ShelfHolds
      <3> QED BY <2>1, <2>4, <3>1, <3>3, <3>4 DEF ShelfInv, ShelfTypeOK
    <2>8. ASSUME NEW title \in Titles, Capturable, Storable(ViewOf(title))
          PROVE  ViewOf(title) \in FitViews /\ Valid(ViewOf(title)) /\ ViewOf(title).title = title
      <3>1. \A i \in DOMAIN panel.applied : ClauseOf(panel.applied[i]).operator \in Registered[panel.applied[i].field]
        BY <2>8, ClauseKeepsField DEF Storable, Valid, ViewOf
      <3>2. LET filters == [i \in DOMAIN panel.applied |-> ClauseOf(panel.applied[i])] IN
            filters \in Seq(Clauses) /\ Narrows(Reopened(filters), panel.applied)
        BY <2>2, <2>8, <3>1, CaptureNarrows DEF Capturable
      <3> QED BY <2>2, <2>8, <3>2 DEF ViewOf, FitViews, FileSorts, Storable
    <2>9. ASSUME NEW title \in Titles, SavesView(title)
          PROVE  ShelfInv'
      <3>1. Loads(shelf.memory)
        BY <2>2, <2>9 DEF SavesView, ShelfHolds
      <3>2. Append(shelf.memory, ViewOf(title)) \in Seq(FitViews) /\ Loads(Append(shelf.memory, ViewOf(title)))
        BY <2>2, <2>8, <2>9, <3>1, AppendedViews DEF SavesView
      <3> QED BY <2>1, <2>9, <3>2, KeptViews DEF SavesView
    <2>10. ASSUME NEW title \in Titles, ReplacesView(title)
           PROVE  ShelfInv'
      <3>1. Loads(shelf.memory)
        BY <2>2, <2>10 DEF ReplacesView, ShelfHolds
      <3>2. With(shelf.memory, title, ViewOf(title)) \in Seq(FitViews) /\ Loads(With(shelf.memory, title, ViewOf(title)))
        BY <2>2, <2>8, <2>10, <3>1, ReplacedViews DEF ReplacesView
      <3> QED BY <2>1, <2>10, <3>2, KeptViews DEF ReplacesView
    <2>11. ASSUME NEW title \in Titles, NEW new \in Titles, RenamesView(title, new)
           PROVE  ShelfInv'
      <3>1. Loads(shelf.memory)
        BY <2>2, <2>11 DEF RenamesView, ShelfHolds
      <3>2. PICK i \in DOMAIN shelf.memory :
              /\ shelf.memory[i].title = title
              /\ KeepsViews(With(shelf.memory, title, [shelf.memory[i] EXCEPT !.title = new]))
        BY <2>11 DEF RenamesView
      <3> DEFINE v == shelf.memory[i]
                 w == [v EXCEPT !.title = new]
      <3>3. v \in FitViews /\ Valid(v)
        BY <2>2, <3>1, LoadsFacts
      <3>4. w \in FitViews /\ Valid(w) /\ w.title = new
        <4>1. w.filters = v.filters /\ w.was = v.was /\ w.title = new
          BY <3>3 DEF FitViews
        <4>2. w \in [title : Titles, sort : FileSorts, filters : Seq(Clauses), was : Seq(FitTerms)]
          BY <3>3 DEF FitViews
        <4> HIDE DEF w
        <4> QED BY <3>3, <4>1, <4>2 DEF FitViews, Valid
      <3> HIDE DEF w
      <3>5. With(shelf.memory, title, w) \in Seq(FitViews) /\ Loads(With(shelf.memory, title, w))
        BY <2>2, <2>11, <3>1, <3>4, ReplacedViews DEF RenamesView
      <3>6. KeepsViews(With(shelf.memory, title, w))
        BY <3>2 DEF w
      <3> QED BY <2>1, <2>11, <3>5, <3>6, KeptViews DEF RenamesView
    <2>12. ASSUME NEW title \in Titles, DeletesView(title)
           PROVE  ShelfInv'
      <3>1. Loads(shelf.memory)
        BY <2>2, <2>12 DEF DeletesView, ShelfHolds
      <3>2. PICK i \in DOMAIN shelf.memory : KeepsViews(AllBut(shelf.memory, i))
        BY <2>12 DEF DeletesView
      <3>3. AllBut(shelf.memory, i) \in Seq(FitViews) /\ Loads(AllBut(shelf.memory, i))
        BY <2>2, <3>1, DeletedViews
      <3> QED BY <2>1, <2>12, <3>2, <3>3, KeptViews DEF DeletesView
    <2>13. ASSUME NEW title \in Titles, OpensView(title)
           PROVE  ShelfInv'
      <3>1. PICK i \in DOMAIN shelf.memory :
              LET v == shelf.memory[i] IN
              \/ /\ v.sort = "columnless"
                 /\ panel' = NarrowedTo(v.filters) /\ opened' = NotOpen
              \/ /\ v.sort # "columnless"
                 /\ panel' = [NarrowedTo(v.filters) EXCEPT !.sort = v.sort]
                 /\ opened' = [open |-> TRUE, was |-> v.was, sort |-> v.sort]
        BY <2>13 DEF OpensView
      <3> DEFINE v == shelf.memory[i]
      <3>2. v \in FitViews
        BY <2>2
      <3>3. \/ v.sort = "columnless" /\ panel' = NarrowedTo(v.filters) /\ opened' = NotOpen
            \/ /\ v.sort # "columnless" /\ panel' = [NarrowedTo(v.filters) EXCEPT !.sort = v.sort]
               /\ opened' = [open |-> TRUE, was |-> v.was, sort |-> v.sort]
        BY <3>1
      <3>4. shelf' = shelf
        BY <2>13 DEF OpensView
      <3> HIDE DEF v
      <3>5. [k \in DOMAIN v.filters |-> TokenOf(v.filters[k])] \in Seq(Tokens)
        <4>1. \A k \in DOMAIN v.filters : TokenOf(v.filters[k]) \in Tokens
          BY <3>2, FitViewFacts, TokenOfFits
        <4> QED BY <3>2, <4>1, FitViewFacts
      <3>6. /\ NarrowedTo(v.filters) \in [draft : Seq(Tokens), applied : Seq(FitTerms), sort : ViewSorts]
            /\ NarrowedTo(v.filters).applied = Reopened(v.filters)
        BY <2>2, <3>2, <3>5, FitViewFacts, ReopenedFits DEF NarrowedTo
      <3>7. CASE v.sort = "columnless" /\ panel' = NarrowedTo(v.filters) /\ opened' = NotOpen
        <4>1. opened' \in Histories /\ OpenHolds'
          BY <3>7 DEF Histories, OpenHolds, NotOpen
        <4> QED BY <2>3, <3>4, <3>6, <3>7, <4>1
      <3>8. CASE /\ v.sort # "columnless" /\ panel' = [NarrowedTo(v.filters) EXCEPT !.sort = v.sort]
                 /\ opened' = [open |-> TRUE, was |-> v.was, sort |-> v.sort]
        <4>1. v.sort \in ViewSorts
          BY <3>2, <3>8, FitViewFacts DEF FileSorts
        <4>2. /\ panel' \in [draft : Seq(Tokens), applied : Seq(FitTerms), sort : ViewSorts]
              /\ panel'.applied = Reopened(v.filters) /\ panel'.sort = v.sort
          BY <3>6, <3>8, <4>1
        <4>3. opened' \in Histories
          BY <3>2, <3>8, <4>1, FitViewFacts DEF Histories
        <4>4. OpenHolds'
          BY <3>2, <3>8, <4>2, FitViewFacts DEF OpenHolds
        <4> QED BY <2>3, <3>4, <4>2, <4>3, <4>4
      <3> QED BY <3>3, <3>7, <3>8
    <2> QED BY <1>2, <2>5, <2>6, <2>7, <2>9, <2>10, <2>11, <2>12, <2>13 DEF ShelfNext
  <1> QED BY <1>1, <1>2

\* The types of SavedViews hold, and its inductive invariant, for every set of
\* titles, lines and views written by hand, and any number of operations,
\* restarts and failed writes.
THEOREM ShelfTypeCorrect == ShelfSpec => []ShelfInv
PROOF
  <1>1. ShelfInv /\ [ShelfNext]_shelfVars => ShelfInv'
    BY ShelfStep
  <1> QED BY <1>1, ShelfBegins, PTL DEF ShelfSpec

\* What the program writes is accepted by the next start, a file it refused is
\* left as it is, and a view that is opened is sorted as it was and, of a filter
\* without negation, shows no device that the filter did not show when it was
\* saved (SavedViewStore, saved_filter_from_term, saved_filter_to_term).
THEOREM ViewsUsable == ShelfSpec => []ViewsStayUsable
PROOF
  <1>1. ShelfInv => ViewsStayUsable
    BY DEF ShelfInv, ShelfHolds, OpenHolds, Narrows, ViewsStayUsable
  <1> QED BY <1>1, ShelfTypeCorrect, PTL

=============================================================================
