----------------------------- MODULE EcHandshake ---------------------------
(***************************************************************************)
(* Logging in: EcClient::connectWithMd5 and authenticate, with the text    *)
(* that was in the password field, and a daemon that should ask with a     *)
(* salt and judge the answer, but may do anything else.                    *)
(*                                                                         *)
(* A text is a password in the clear, the MD5 digest of one in lower or    *)
(* upper case, or (what no correct program produces) the digest of a       *)
(* digest.  MD5 is taken to be injective.  One attempt at a time: the      *)
(* worker's thread waits for it.                                           *)
(***************************************************************************)
EXTENDS Naturals

CONSTANTS Secrets,     \* passwords
          HexSecrets,  \* those of them that consist of 32 hexadecimal digits
          Salts        \* salts a daemon may send

ASSUME HexAssumption == HexSecrets \subseteq Secrets
ASSUME SaltsAssumption == Salts # {}

VARIABLES
  secret,   \* the daemon's password
  step,     \* "none", or the request that waits for its reply, or "done"
  text,     \* what connectToDaemon was called with
  salt,     \* the salt of this attempt
  outcome,  \* "ok" or the kind of the EcError
  said,     \* history: opcode of the daemon's last reply in this attempt, or "none"
  proper    \* history: daemon and network have done their part in this attempt

handshake == <<step, text, salt, outcome, said, proper>>

Text == [of : Secrets, form : {"plain", "digest", "DIGEST", "twice"}]
Plain(s) == [of |-> s, form |-> "plain"]
Outcomes == {"ok", "AuthFailed", "Unexpected", "MissingSalt", "Io"}  \* Io or Remote
Opcodes == {"AUTH_SALT", "AUTH_OK", "AUTH_FAIL", "other"}

HandshakeTypeOK ==
  /\ secret \in Secrets /\ step \in {"none", "AUTH_REQ", "AUTH_PASSWD", "done"}
  /\ text \in Text /\ salt \in Salts /\ outcome \in Outcomes
  /\ said \in Opcodes \cup {"none"} /\ proper \in BOOLEAN

(* ----------------------------- password texts --------------------------- *)

LooksHashed(t) == t.form # "plain" \/ t.of \in HexSecrets
Lower(t) == IF t.form = "DIGEST" THEN [t EXCEPT !.form = "digest"] ELSE t
Md5Hex(t) == [t EXCEPT !.form = IF t.form = "plain" THEN "digest" ELSE "twice"]

\* Seeded fault: a digest is taken as it was typed.
NormalizeKeepingCase(t) == IF LooksHashed(t) THEN t ELSE Md5Hex(t)

\* normalizePasswordMd5.
Normalize(t) == IF LooksHashed(t) THEN Lower(t) ELSE Md5Hex(t)

\* saltedPasswordHash, as injective as MD5 is.
Salted(digest, s) == <<digest, s>>

\* A text that should open this daemon: its password or the digest of it.  A
\* password that looks like a digest does not, for it is taken to be one.
Opens(t) == t.of = secret /\ t.form # "twice" /\ (t.form = "plain" => secret \notin HexSecrets)

(* ------------------------------- handshake ------------------------------ *)

AnySalt == CHOOSE s \in Salts : TRUE

HandshakeInit ==
  /\ secret \in Secrets /\ step = "none" /\ outcome = "Io" /\ said = "none" /\ proper = TRUE
  /\ text = Plain(secret) /\ salt = AnySalt

\* Password, salt and result of an attempt are locals of calls that are over.
Forgotten ==
  /\ step' = "none" /\ outcome' = "Io" /\ said' = "none" /\ proper' = TRUE
  /\ text' = Plain(secret) /\ salt' = AnySalt /\ UNCHANGED secret

\* The salt is a local of authenticate, which returns.
Done(how) == step' = "done" /\ outcome' = how /\ salt' = AnySalt

\* A connection or an exchange that fails: no reply, or none that can be read.
Fails == said' = "none" /\ proper' = FALSE /\ Done("Io")

\* connectWithMd5: the socket, and AUTH_REQ.
Begin(t) ==
  /\ text' = t
  /\ \/ step' = "AUTH_REQ" /\ said' = "none" /\ proper' = TRUE /\ UNCHANGED <<salt, outcome>>
     \/ Fails
  /\ UNCHANGED secret

\* The switch over the last reply: anything but a verdict is refused, a second
\* salt included.
Verdict(op) == CASE op = "AUTH_OK"   -> "ok"
                 [] op = "AUTH_FAIL" -> "AuthFailed"
                 [] OTHER            -> "Unexpected"

\* Seeded fault: a salt of zero is taken for a missing one.
AuthReqAnsweredZero ==
  /\ step = "AUTH_REQ" /\ UNCHANGED <<secret, text>>
  /\ \/ Fails
     \/ \E op \in Opcodes \ {"AUTH_SALT"} : said' = op /\ Done(Verdict(op)) /\ proper' = FALSE
     \/ \E s \in Salts : /\ said' = "AUTH_SALT" /\ UNCHANGED proper
                          /\ IF s = 0 THEN Done("MissingSalt")
                             ELSE step' = "AUTH_PASSWD" /\ salt' = s /\ UNCHANGED outcome

\* The reply to AUTH_REQ: a salt, which AUTH_PASSWD answers at once, a packet
\* without one, or what is taken for a verdict.
AuthReqAnswered ==
  /\ step = "AUTH_REQ" /\ UNCHANGED <<secret, text>>
  /\ \/ Fails
     \/ \E op \in Opcodes \ {"AUTH_SALT"} : said' = op /\ Done(Verdict(op)) /\ proper' = FALSE
     \/ said' = "AUTH_SALT" /\ Done("MissingSalt") /\ proper' = FALSE
     \/ /\ said' = "AUTH_SALT" /\ step' = "AUTH_PASSWD" /\ salt' \in Salts
        /\ UNCHANGED <<outcome, proper>>

\* What a daemon that does its part says to AUTH_PASSWD.
Judgement ==
  IF Salted(Normalize(text), salt) = Salted(Md5Hex(Plain(secret)), salt)
  THEN "AUTH_OK" ELSE "AUTH_FAIL"

\* The reply to AUTH_PASSWD.
AuthPasswdAnswered ==
  /\ step = "AUTH_PASSWD" /\ UNCHANGED <<secret, text>>
  /\ \/ Fails
     \/ \E op \in Opcodes : said' = op /\ Done(Verdict(op)) /\ proper' = (op = Judgement)

\* connectToDaemon has taken the result.
Finish == step = "done" /\ Forgotten

=============================================================================
