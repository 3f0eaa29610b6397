-------------------------------- MODULE Walk --------------------------------
(***************************************************************************)
(* One call of one parser on one buffer, step by step.  Children are taken *)
(* at their promise; every child is walked too, so the promises are checked *)
(* class by class.                                                          *)
(***************************************************************************)
EXTENDS Frames

CONSTANTS Walks(_),   \* the steps of every class
          Sizes       \* [class -> the sizes of the buffers it is given]

VARIABLE f

Init == f \in UNION {{Start(c, m) : m \in Sizes[c]} : c \in DOMAIN Sizes}

\* A step that leaves the frame as it was is a loop that never ends.
Endless(g) == [g EXCEPT !.at = "endless"]
Next == /\ ~Finished(f) /\ f # Endless(f)
        /\ f' \in {IF g = f THEN Endless(f) ELSE g : g \in Walks(f)}

Spec == Init /\ [][Next]_f /\ WF_f(Next)

Has(caveat) == caveat \in Promise(f.cls).caveats
Returned == f.at = "returned"

\* A frame stays inside its buffer and reports sizes only once it has them.
TypeOK == /\ f.n \in 0 .. f.n0
          /\ ~Finished(f) => f.len >= 0 /\ f.out >= 0

\* Callers advance by what a class reports: it keeps the promise they rely on.
KeepsPromise == Returned => IF f.len = -1 THEN Has("unsized") ELSE f.len \in Reports(f.cls, f.n0)

\* A malformed buffer ends in dpkt.UnpackError (NeedData is one): nothing else
\* leaves a parser than what is known of it, and raised through from inside.
OnlyDeclared == f.at \in Exceptions => Has(f.at)

\* bytes() writes as many bytes as len() reports.
BytesMatchLen == Returned /\ f.len # -1 => f.out = f.len \/ Has("uneven")

\* An element whose declared size fits the buffer reports exactly that size,
\* so the element after it is read from where it starts.
Aligned == Returned /\ f.claim \in Promise(f.cls).least .. f.n0 => f.len = f.claim \/ Has("drifts")

\* Every parser comes to an end on every buffer.
Terminates == <>Finished(f)
=============================================================================
