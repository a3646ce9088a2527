------------------------------- MODULE JsonFile -------------------------------
(***************************************************************************)
(* The executor keeps every piece of durable state in a JSON file that it  *)
(* rewrites in place: Path.write_text opens the file with "w", which       *)
(* truncates it, and then writes the new text.  Nothing locks the file and *)
(* nothing renames a finished copy over it.  A file is a record: its text  *)
(* is "ok" (one whole document), "empty" (truncated, not yet written) or   *)
(* "mixed" (two processes wrote over each other).  json.loads raises       *)
(* JSONDecodeError, a ValueError, on the last two.                         *)
(***************************************************************************)

\* The files whose documents are values of V.
JsonFiles(V) == [text : {"ok", "empty", "mixed"}, value : V]

Intact(v) == [text |-> "ok", value |-> v]

Readable(f) == f.text = "ok"

\* open(path, "w"): the old document is gone; blank stands for "no value".
Truncated(blank) == [text |-> "empty", value |-> blank]

\* write() after the open.  Onto a file that is still empty it leaves exactly
\* v.  If another process has written since this one truncated, v covers the
\* front of that text and a longer tail of it may remain behind.
Written(f, v, blank) ==
  IF f.text = "empty" THEN {Intact(v)}
  ELSE {Intact(v), [text |-> "mixed", value |-> blank]}

===============================================================================
