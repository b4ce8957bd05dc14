---------------------------- MODULE MCFadeLive ----------------------------
(* Two picks of one day, and the first one's coin picked again on the next. *)
EXTENDS FadeLive

CONSTANTS A, B

MCDayOf    == <<0, 0, 1>>
MCSymbolOf == <<A, B, A>>

=============================================================================
