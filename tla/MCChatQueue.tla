----------------------------- MODULE MCChatQueue -----------------------------
(* ChatQueue with two delegated messages and two typed by a person.          *)
EXTENDS ChatQueue

CONSTANTS d1, d2, h1, h2

MCMessages == {d1, d2, h1, h2}
MCDelegated == {d1, d2}
=============================================================================
