-------------------------------- MODULE Entries --------------------------------
(***************************************************************************)
(* Functions that grow, and records of which some fields change: the maps  *)
(* and the object spreads of the code.                                     *)
(***************************************************************************)

\* f with an entry more; an entry it has stays as it is.
WithEntry(f, id, x) == [i \in DOMAIN f \cup {id} |-> IF i \in DOMAIN f THEN f[i] ELSE x]

\* f with the entry x at id, in the place of the one it may have had.
SetEntry(f, id, x) == [i \in DOMAIN f \cup {id} |-> IF i = id THEN x ELSE f[i]]

\* r with the fields given; r has a field of each name.
WithFields(r, fields) == [n \in DOMAIN r |-> IF n \in DOMAIN fields THEN fields[n] ELSE r[n]]
=============================================================================
