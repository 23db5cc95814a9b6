--------------------------- MODULE MCRegistration ---------------------------
(* The instance of Registration for TLC.                                     *)
EXTENDS Registration

CONSTANTS phone1, u1, u2

OnePhone == {phone1}
Accounts == {u1, u2}
Queues == OnePhone \X (Accounts \cup {NoAccount})
=============================================================================
