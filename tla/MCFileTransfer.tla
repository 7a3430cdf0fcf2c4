--------------------------- MODULE MCFileTransfer ---------------------------
(* Instances of FileTransfer for TLC: a newline, what it becomes, and zero. *)
EXTENDS FileTransfer, TLC

CONSTANTS newline, crlf, nul

\* ios::out on Windows writes a newline as CR LF.  That a CR LF, downloaded
\* once more, gets a second CR is cut off here.
WindowsText == (newline :> crlf) @@ (crlf :> crlf) @@ (nul :> nul)
=============================================================================
