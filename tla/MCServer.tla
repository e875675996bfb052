------------------------------- MODULE MCServer -------------------------------
(* Server with a prompt and a slow client and the script's curl. *)
EXTENDS Server

CONSTANTS prompt, slow, curl

All == {prompt, slow, curl}
Slows == {slow}
=============================================================================
