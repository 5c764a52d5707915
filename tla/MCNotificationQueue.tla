------------------------- MODULE MCNotificationQueue -------------------------
(***************************************************************************)
(* Instances of NotificationQueue for TLC: which number each alert calls   *)
(* and which channels it asks for.                                         *)
(***************************************************************************)
EXTENDS NotificationQueue, TLC

CONSTANTS n1, n2, n3, k1

\* Three alerts of one user and phone number.
OneNumber == (n1 :> k1) @@ (n2 :> k1) @@ (n3 :> k1)

\* Everybody wants a call.
CallsOnly == [a \in Alerts |-> {"call"}]

\* The first alert wants an SMS too.
CallAndSms == [a \in Alerts |-> IF a = n1 THEN {"sms", "call"} ELSE {"call"}]

=============================================================================
