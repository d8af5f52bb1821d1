----------------------------- MODULE MCSsoSettings -----------------------------
(* SsoSettings for TLC: two saves, a first request, two events.                *)
EXTENDS SsoSettings, TLC

Alike == Permutations(Savers) \cup Permutations(Events)
===============================================================================
