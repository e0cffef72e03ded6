------------------------- MODULE ArticleLifecycle -------------------------
(***************************************************************************)
(* What the articles table promises to its readers, whoever writes it and  *)
(* in whichever order: a row appears once, as "processing", and never      *)
(* returns to it; it only ever holds content a worker produced, and is     *)
(* only marked failed once a worker reported an error; "ready" is entered  *)
(* with both contents.  Recording a failure may take content away or bring *)
(* some back: UpdateArticle writes every column as its caller had read it. *)
(***************************************************************************)
CONSTANT Article

VARIABLES
    rows,     \* the articles table
    produced  \* per article, what the workers have come up with so far

vars == <<rows, produced>>

Absent == "absent"
NoRow == [status |-> Absent, html |-> FALSE, phonemes |-> FALSE]
Outcome == {"text", "phonemes", "error"}

Exists(a) == rows[a].status # Absent
Put(a, status, html, phonemes) ==
    rows' = [rows EXCEPT ![a] = [status |-> status, html |-> html, phonemes |-> phonemes]]

Init ==
    /\ rows = [a \in Article |-> NoRow]
    /\ produced = [a \in Article |-> {}]

Create(a) ==
    ~Exists(a) /\ Put(a, "processing", FALSE, FALSE) /\ UNCHANGED produced

\* Outcomes only ever add up: an error does not rule out a later success.
Produce(a, o) ==
    /\ Exists(a)
    /\ produced' = [produced EXCEPT ![a] = @ \cup {o}]
    /\ UNCHANGED rows

TextArrives(a) ==
    /\ Exists(a) /\ "text" \in produced[a]
    /\ Put(a, IF rows[a].phonemes THEN "ready" ELSE "text-ready", TRUE, rows[a].phonemes)
    /\ UNCHANGED produced

PhonemesArrive(a) ==
    /\ Exists(a) /\ "phonemes" \in produced[a]
    /\ Put(a, IF rows[a].html THEN "ready" ELSE "phonemes-ready", rows[a].html, TRUE)
    /\ UNCHANGED produced

Fails(a) ==
    /\ Exists(a) /\ "error" \in produced[a]
    /\ \E html, phonemes \in BOOLEAN :
         /\ html => "text" \in produced[a]
         /\ phonemes => "phonemes" \in produced[a]
         /\ Put(a, "failed", html, phonemes)
    /\ UNCHANGED produced

Next ==
    \E a \in Article :
        \/ Create(a) \/ TextArrives(a) \/ PhonemesArrive(a) \/ Fails(a)
        \/ \E o \in Outcome : Produce(a, o)

Spec == Init /\ [][Next]_vars
=============================================================================
