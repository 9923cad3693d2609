---------------------------- MODULE MCAdminWrites ---------------------------
(* AdminWrites on small instances: see the .cfg files of the same prefix.   *)
EXTENDS AdminWrites

CONSTANT Scenarios   \* what a behaviour has: [kinds, ids, time, moves]

VARIABLE scenario

\* The profile a behaviour begins with.
Chosen == CHOOSE p \in Profiles : TRUE

Instance(sorts, number, seconds, others) == [kinds |-> sorts, ids |-> number, time |-> seconds, moves |-> others]

\* Edits and deletions, deletions and a batch, reviews that grow old.
Edits    == Instance({"Device", "Delete"}, 2, 1, {})
Removals == Instance({"Delete", "Routes"}, 3, 1, {})

\* A batch and the retry of its child, or of the batch, with a switch of profile; both retries.
Switches == Instance({"Routes"}, 4, 0, Profiles)
Retries  == Instance({"Routes"}, 5, 0, Profiles \ {Chosen})

\* One batch, and time.
Waiting == Instance({"Routes"}, 3, 2, {})

Competing == {Edits, Removals, Switches, Retries}
OneBatch  == {Waiting}

WritesInit ==
    /\ scenario \in Scenarios
    /\ Init
    /\ profile = Chosen

WritesNext ==
    /\ UNCHANGED scenario
    /\ Next
    /\ nextId' <= scenario.ids + 1 /\ clock' <= scenario.time
    /\ profile' \in scenario.moves \cup {profile}
    /\ \A n \in DOMAIN overlays' : overlays'[n].kind \in scenario.kinds
    /\ \A i \in Ids : request'[i].kind \in scenario.kinds \cup {"None"}

WritesSpec == WritesInit /\ [][WritesNext]_<<vars, scenario>>
=============================================================================
