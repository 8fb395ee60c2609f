--------------------------- MODULE MCCommentSync ---------------------------
(* An instance of CommentSync for TLC.                                     *)
EXTENDS CommentSync

\* Changes apart from one another and on top of one another, and each fault alone.
MCScenarios ==
  {[kinds |-> {},             faults |-> 0, changes |-> 4],
   [kinds |-> {"busy"},       faults |-> 0, changes |-> 2],
   [kinds |-> {"linkLost"},   faults |-> 1, changes |-> 3],
   [kinds |-> {"slow"},       faults |-> 1, changes |-> 3],
   [kinds |-> {"reload"},     faults |-> 1, changes |-> 3],
   [kinds |-> {"writeFails"}, faults |-> 1, changes |-> 3]}

\* Nothing but changes, one after the other has reached both sides.
MCQuiet == {[kinds |-> {}, faults |-> 0, changes |-> 3]}
=============================================================================
