------------------------- MODULE CertificateStanding -------------------------
(***************************************************************************)
(* The abstract specification of the authority check of one certificate.   *)
(* The certificate has standing until it lapses: it expires, or a status   *)
(* event of it is recorded.  Nothing gives standing back.  A caller asks,  *)
(* and is answered by what holds when the answer is given: it is told that *)
(* the check decided only of a certificate with standing, and that it is   *)
(* withdrawn only of one without.  An answer may always be withheld.       *)
(***************************************************************************)
VARIABLES
  standing,       \* is the certificate in force?
  answer          \* to the last question, or "waiting" for it

svars == <<standing, answer>>

SInit ==
  /\ standing \in BOOLEAN
  /\ answer = "withheld"

\* A status event is recorded between two questions.
Lapse ==
  /\ answer # "waiting"
  /\ standing' = FALSE
  /\ UNCHANGED answer

\* A question, maybe at a later time than the one before.
Ask ==
  /\ answer # "waiting"
  /\ answer' = "waiting"
  /\ standing' \in BOOLEAN
  /\ standing' => standing

Answer ==
  /\ answer = "waiting"
  /\ answer' \in {"decided", "withdrawn", "withheld"}
  /\ answer' = "decided" => standing
  /\ answer' = "withdrawn" => ~ standing
  /\ UNCHANGED standing

SNext == Lapse \/ Ask \/ Answer

SSpec == SInit /\ [][SNext]_svars
=============================================================================
