---------------------------- MODULE AtomicPublish ----------------------------
(***************************************************************************)
(* What internal/publish promises its callers: a batch of managed files,   *)
(* the revision, the ownership claim and the notice debt change together   *)
(* or not at all.  Others may write a managed file at any moment; a file   *)
(* they hold is left out of the batch, unless they wrote it in the window  *)
(* between quota's last look at it and quota's own write.                  *)
(***************************************************************************)
EXTENDS Naturals

CONSTANT Files

VARIABLES
  content,  \* the committed bytes of each file
  rev,      \* the committed revision
  claim,    \* the revision whose bytes the ownership claim describes
  debt,     \* the revision of the unpublished notice
  batch     \* the files the accepted transaction is about to replace

avars == <<content, rev, claim, debt, batch>>

Init == rev = 0 /\ claim = 0 /\ debt = 0 /\ batch = {}

\* A transaction becomes durable: from here it is published or abandoned.
Accept ==
  /\ batch = {} /\ batch' \in SUBSET Files
  /\ UNCHANGED <<content, rev, claim, debt>>

\* All of the batch at once, with the claim and the debt that describe it.
Publish ==
  /\ rev' = rev + 1
  /\ \A f \in Files : IF f \in batch THEN content'[f].by = "quota" /\ content'[f].n = rev'
                                    ELSE content'[f] = content[f]
  /\ claim' \in {claim, rev'}
  /\ debt' \in {debt, rev'}
  /\ batch' = {}

\* None of it; the revision is spent.
Abandon ==
  /\ rev' = rev + 1
  /\ batch' = {}
  /\ UNCHANGED <<content, claim, debt>>

\* Someone else writes a file, which leaves the batch.
Edit(f) ==
  /\ \A g \in Files \ {f} : content'[g] = content[g]
  /\ content'[f].by # "quota"
  /\ batch' = batch \ {f}
  /\ UNCHANGED <<rev, claim, debt>>

\* Someone wrote a file in the window, and quota writes it all the same.
LoseEdit(f) ==
  /\ f \notin batch
  /\ batch' = batch \cup {f}
  /\ \A g \in Files \ {f} : content'[g] = content[g]
  /\ UNCHANGED <<rev, claim, debt>>

Next == Accept \/ Publish \/ Abandon \/ \E f \in Files : Edit(f) \/ LoseEdit(f)

Spec == Init /\ [][Next]_avars
=============================================================================
