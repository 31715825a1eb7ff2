----------------------------- MODULE WebSession -----------------------------
(***************************************************************************)
(* The logins of the web page in lesson5/rpc_server/web_api.c.  They are    *)
(* kept in /tmp/web_sessions.json, which every request reads anew into a    *)
(* buffer of fixed size: a longer file is cut, does not parse and counts as *)
(* no file.  A check reads 1023 bytes, enough for 11 logins, a login or     *)
(* logout 2047, enough for 23.  The HTTP thread serves one request after    *)
(* the other, so each is one step.                                          *)
(*                                                                          *)
(* Abstracted: passwords (a login is one that succeeded); all names have    *)
(* the same length; a token is given again once it is forgotten.            *)
(***************************************************************************)
EXTENDS Integers, FiniteSets

CONSTANTS
  Tokens,
  VerifyLimit,     \* logins in a file that verify_auth_token can read, 11
  SaveLimit,       \* logins in a file that save_session and logout can read, 23
  Lifetime         \* 86400 s; here ticks

VARIABLES
  sessions, whole, \* what the file holds, and whether it was written to the end
  left,            \* expires - now; 0 when expired
  loggedOut        \* history: those logged out before they expired, by a logout
                   \* that could open the file

sessionVars == <<sessions, whole, left, loggedOut>>

SessionInit ==
  /\ sessions = {} /\ whole = TRUE
  /\ left = [t \in Tokens |-> 0] /\ loggedOut = {}

Parses(limit) == whole /\ Cardinality(sessions) <= limit
Alive(t) == left[t] > 0

(* verify_auth_token                                                       *)
Authenticated(t) == Parses(VerifyLimit) /\ t \in sessions /\ Alive(t)

(* What becomes of the file when S is to be written: it cannot be opened    *)
(* and stays as it was, or it is written, to the end or not.                *)
Outcomes == {"kept", "written", "torn"}

Write(S, outcome) ==
  /\ sessions' = IF outcome = "kept" THEN sessions ELSE S
  /\ whole' = IF outcome = "kept" THEN whole ELSE outcome = "written"

(* save_session: the expired go; a file that cannot be opened or does not   *)
(* parse is begun anew.                                                     *)
Saved(t, opened) ==
  (IF opened /\ Parses(SaveLimit) THEN {s \in sessions : Alive(s)} ELSE {}) \cup {t}

(* Mutant: a file that does not parse is left as it is.                    *)
LoginIfParsed(t, opened, outcome) ==
  /\ t \notin sessions /\ ~Alive(t)
  /\ Write(Saved(t, opened), IF Parses(SaveLimit) THEN outcome ELSE "kept")
  /\ left' = [left EXCEPT ![t] = Lifetime]
  /\ loggedOut' = loggedOut \ {t}

(* api_login, confirmed whatever became of the file.                       *)
Login(t, opened, outcome) ==
  /\ t \notin sessions /\ ~Alive(t)
  /\ Write(Saved(t, opened), outcome)
  /\ left' = [left EXCEPT ![t] = Lifetime]
  /\ loggedOut' = loggedOut \ {t}

(* api_logout, confirmed whatever happens.  A file that cannot be opened,   *)
(* for reading or for writing, stays as it was: nobody is logged out.       *)
Logout(t, opened, outcome) ==
  LET parsed == opened /\ Parses(SaveLimit) IN
  /\ Alive(t)
  /\ Write(sessions \ {t}, IF parsed THEN outcome ELSE "kept")
  /\ loggedOut' = IF opened /\ ~(parsed /\ outcome = "kept")
                  THEN loggedOut \cup {t} ELSE loggedOut
  /\ UNCHANGED left

SessionTick ==
  /\ left' = [t \in Tokens |-> IF Alive(t) THEN left[t] - 1 ELSE 0]
  /\ loggedOut' = {t \in loggedOut : left'[t] > 0}
  /\ UNCHANGED <<sessions, whole>>

(* The device restarts: /tmp is in memory.                                 *)
Reboot ==
  /\ sessions' = {} /\ whole' = TRUE
  /\ UNCHANGED <<left, loggedOut>>

SessionNext ==
  \/ \E t \in Tokens, opened \in BOOLEAN, outcome \in Outcomes :
       Login(t, opened, outcome) \/ Logout(t, opened, outcome)
  \/ SessionTick \/ Reboot

-----------------------------------------------------------------------------
SessionTypeOK ==
  /\ sessions \subseteq Tokens /\ whole \in BOOLEAN
  /\ left \in [Tokens -> 0..Lifetime] /\ loggedOut \subseteq Tokens

(* Who has logged out stays logged out, also where the logout could not     *)
(* parse the file: a file too long for a logout is never checked against,   *)
(* and never gets short again but by being begun anew.  (Where it could not *)
(* open the file the logout is confirmed and the token stays good.)         *)
LoggedOutStaysOut == \A t \in loggedOut : ~Authenticated(t)

(* A file too long to be checked, or cut, refuses everybody.  When all      *)
(* logins in it have expired the next login gets in, provided it could be   *)
(* written: it purges the file or begins it anew.  (One login an hour keeps *)
(* everybody out for ever.)                                                 *)
QuietDayHeals ==
  [][\A t \in Tokens, opened \in BOOLEAN :
       Login(t, opened, "written") /\ (\A s \in Tokens : ~Alive(s))
         => Authenticated(t)']_sessionVars
(* The session file keeps out whom it should, and not everybody for ever.   *)
SessionsAreSound == []LoggedOutStaysOut /\ QuietDayHeals
=============================================================================
