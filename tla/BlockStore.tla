----------------------------- MODULE BlockStore -----------------------------
(***************************************************************************)
(* What the buffer cache promises the file system: every disk block is a   *)
(* register that one process at a time may own, read and write.            *)
(***************************************************************************)
CONSTANTS Process, Block, Val, None
VARIABLES content, owner

Init == /\ content \in [Block -> Val]
        /\ owner = [k \in Block |-> None]

Acquire(k) == /\ owner[k] = None
              /\ owner'[k] \in Process
              /\ content'[k] = content[k]

Release(k) == /\ owner[k] # None
              /\ owner'[k] = None
              /\ content'[k] = content[k]

(* Only the owner writes. *)
Write(k) == /\ owner[k] # None
            /\ owner'[k] = owner[k]
            /\ content'[k] \in Val

Next == \E k \in Block :
          /\ Write(k) \/ Acquire(k) \/ Release(k)
          /\ \A j \in Block \ {k} : content'[j] = content[j] /\ owner'[j] = owner[j]

Spec == Init /\ [][Next]_<<content, owner>>
=============================================================================
