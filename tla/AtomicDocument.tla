-------------------------- MODULE AtomicDocument --------------------------
(***************************************************************************)
(* What DurableJsonStore promises (its class comment): a document that     *)
(* changes in one step or not at all.  An update looks at the document,    *)
(* and puts in its place what it saw, changed; an update that failed has   *)
(* not changed it, and one that returned has.  A damaged document cannot   *)
(* be looked at.  The document is the set of the updates it contains.      *)
(***************************************************************************)
CONSTANTS Updates, Damaged
VARIABLES document,  \* Damaged, or a set of updates
          status,    \* of each update
          base       \* what it looked at

Running == {"begun", "looked", "applied"}

Init == /\ document = {}
        /\ status = [u \in Updates |-> "new"]
        /\ base = [u \in Updates |-> {}]

Move(u, from, to) == /\ status[u] \in from
                     /\ status' = [status EXCEPT ![u] = to]

Begin(u) == Move(u, {"new"}, "begun") /\ UNCHANGED <<document, base>>

Look(u) == /\ document # Damaged
           /\ Move(u, {"begun"}, "looked")
           /\ base' = [base EXCEPT ![u] = document]
           /\ UNCHANGED document

\* A document that did not exist when it was looked at is made empty first.
Initialise(u) == /\ status[u] = "looked"
                 /\ base[u] = {}
                 /\ document' = {}
                 /\ UNCHANGED <<status, base>>

Apply(u) == /\ Move(u, {"looked"}, "applied")
            /\ document' = base[u] \cup {u}
            /\ UNCHANGED base

Return(u) == Move(u, {"applied"}, "done") /\ UNCHANGED <<document, base>>
Fail(u) == Move(u, {"begun", "looked"}, "failed") /\ UNCHANGED <<document, base>>
End(us) == /\ status' = [u \in Updates |->
                            IF u \in us /\ status[u] \in Running THEN "ended"
                            ELSE status[u]]
           /\ UNCHANGED <<document, base>>
Damage == document' = Damaged /\ UNCHANGED <<status, base>>

Next == \/ \E u \in Updates : \/ Begin(u) \/ Look(u) \/ Initialise(u) \/ Apply(u)
                              \/ Return(u) \/ Fail(u)
        \/ \E us \in SUBSET Updates : End(us)
        \/ Damage

Spec == Init /\ [][Next]_<<document, status, base>>
=============================================================================
