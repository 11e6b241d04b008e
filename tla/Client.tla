------------------------------- MODULE Client -------------------------------
(***************************************************************************)
(* client/sixel_client.py: which messages a client with a TOTP secret can  *)
(* open.  Times are counted in TOTP steps of 30 seconds, so that a code is *)
(* its step, and the key of a message is the code and the UTC date at which *)
(* it was sealed.                                                          *)
(***************************************************************************)
EXTENDS Integers

CONSTANT TotpWindow   \* totp_window: steps tried on either side of now

ASSUME ClientAssumption == TotpWindow \in Nat /\ TotpWindow <= 2880

StepsPerDay == 2880
Day(t) == t \div StepsPerDay

(* Mutant: yesterday is not tried.                                          *)
DatesWithoutYesterday(now, received) == {Day(received), Day(now)}

(* dates_to_try, and the codes of the inner loop of _try_decrypt.           *)
Dates(now, received) == {Day(received), Day(now), Day(now) - 1}
Codes(now) == {now + offset : offset \in -TotpWindow..TotpWindow}

(* Some pair of the two loops gives the key the message was sealed with.    *)
Opens(sealed, received, now) == sealed \in Codes(now) /\ Day(sealed) \in Dates(now, received)
=============================================================================
