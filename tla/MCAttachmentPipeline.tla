------------------------ MODULE MCAttachmentPipeline ------------------------
(* Instances of AttachmentPipeline: sizes for the documents of the entries. *)
EXTENDS AttachmentPipeline

\* Entries of different sizes, one without documents of its own and one whose
\* documents exceed the budget by themselves; and entries of which any three
\* fit into what the shared attachments leave, with nothing to spare.
MixedSizes == {[e \in Entries |-> <<2, 0, 3, 6>>[e]],
               [e \in Entries |-> 1]}

\* Every entry has the same documents.
EqualSizes == {[e \in Entries |-> 2]}
=============================================================================
