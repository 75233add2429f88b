--------------------------- MODULE ReleaseLedger ---------------------------
(***************************************************************************)
(* What publishing one revision wave promises to a consumer: a ledger that *)
(* gains whole entries, one per tag, all of one packaging commit, and      *)
(* never changes or loses one.                                             *)
(***************************************************************************)
CONSTANTS Tags,     \* the tags of the wave
          Entries   \* what can be published: a commit and its files

VARIABLE ledger     \* for each tag the entry published under it, if any, as a set

Init == ledger = [t \in Tags |-> {}]

Publish(t, e) ==
    /\ ledger[t] = {}
    /\ \A s \in Tags : \A other \in ledger[s] : other.commit = e.commit
    /\ ledger' = [ledger EXCEPT ![t] = {e}]

Next == \E t \in Tags, e \in Entries : Publish(t, e)

Spec == Init /\ [][Next]_ledger
=============================================================================
