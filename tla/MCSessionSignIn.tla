--------------------------- MODULE MCSessionSignIn --------------------------
(* A small instance of SessionSignIn for TLC. *)
EXTENDS SessionSignIn

(* No cookie, so that the first request signs in, with a key or without. *)
KeyOrNone == [key : {"k1", NoKey}, cookie : {NoCookie}]
=============================================================================
