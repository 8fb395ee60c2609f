---------------------------- MODULE MCToolCatalog ----------------------------
EXTENDS ToolCatalog, TLC

CONSTANTS list, open, editor, comments, reopened

\* All three batches define one name, and only one of them can be registered at a time
\* until a batch is disposed of again and frees the name of another.
MCProvides == editor :> {open} @@ comments :> {list, open} @@ reopened :> {open}
=============================================================================
