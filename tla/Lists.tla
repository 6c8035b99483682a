------------------------------- MODULE Lists -------------------------------
(* The doubly linked lists of rtservice.h, as sequences of the objects     *)
(* whose nodes they link.                                                  *)
EXTENDS Sequences, SequencesExt

Member(t, s) == \E i \in DOMAIN s : s[i] = t

\* A list without t's node (rt_list_remove); a node that is not linked there is
\* left alone.
Unlink(s, t) ==
  IF Member(t, s) THEN RemoveAt(s, CHOOSE i \in DOMAIN s : s[i] = t) ELSE s
=============================================================================
