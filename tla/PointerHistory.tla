----------------------------- MODULE PointerHistory -----------------------------
(***************************************************************************)
(* The list history.json of the two package tools, bin/ullage-runtime.py   *)
(* and bin/ullage-host-runtime.py, which change it alike.                  *)
(***************************************************************************)
EXTENDS Naturals, Sequences

\* The entries of s that are not x, in their order.
Others(s, x) ==
  LET kept[n \in 0..Len(s)] ==
        IF n = 0 THEN <<>>
        ELSE IF s[n] = x THEN kept[n - 1] ELSE Append(kept[n - 1], s[n])
  IN kept[Len(s)]
================================================================================
