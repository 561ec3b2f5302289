--------------------------- MODULE MCDraftMirror ---------------------------
(* DraftMirror on small instances: the bounds are in the configurations.   *)
EXTENDS DraftMirror

(* Bound: a call that is repeated or refused is looked at with one draft,  *)
(* of which nothing is sent.                                               *)
ErrorsWithOneDraft ==
  Happened("error") \/ Happened("refused") => lastDraft <= 1 /\ sends = <<>>
=============================================================================
