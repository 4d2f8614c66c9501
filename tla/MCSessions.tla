---------------------------- MODULE MCSessions ----------------------------
(* Two tabs of one browser, another device, and a few sessions.            *)
EXTENDS Sessions

CONSTANTS t1, t2

MCTabs == {t1, t2}
=============================================================================
