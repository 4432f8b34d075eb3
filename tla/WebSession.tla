----------------------------- MODULE WebSession -----------------------------
(***************************************************************************)
(* Logging in to the web services (src/webservices.cpp). A browser asks    *)
(* for a salt, proves with it that it knows the password of a user level,  *)
(* and is given a token; every request with the token is answered at that  *)
(* level and keeps it alive. All of this runs in the main loop, one        *)
(* request at a time. Times are kept on the system clock, which a user or  *)
(* the host may set: a time is modelled by its distance from the clock.    *)
(***************************************************************************)
EXTENDS Integers, FiniteSets, Functions

CONSTANTS
  Browsers,    \* an address and a user agent each
  SaltIds,     \* what a salt's id is drawn from
  TokenIds,    \* what a token is drawn from
  MAX_SALTS,   \* 1000: no more salts are given out beyond
  SaltLife,    \* 60 s
  TokenLife,   \* 60 s: until a new token must have been used
  UseLife,     \* 180 s: from one use to the next
  Jumps,       \* how far the clock may be set
  Horizon      \* longer than the clock can be set back in all: a token that
               \* has expired for so long stays expired

ASSUME SessionAssumption ==
  /\ SaltLife \in Nat /\ UseLife \in Nat /\ TokenLife \in 0 .. UseLife
  /\ Jumps \subseteq Int
  /\ MAX_SALTS \in Nat /\ Horizon \in Nat \ {0}

VARIABLES
  salts,     \* _salts: id, text (told apart by who asked for it) and age
  tokens,    \* _auth_tokens: token, client, level and time left
  held,      \* per browser: the salt it was given
  mine,      \* per browser: its token
  events,    \* still to happen
  sessions   \* per token given out: idle, the time since its last use, the
             \* life it was given then, and whether the clock was set since
             \* by anyone but its user

sessionVars == <<salts, tokens, held, mine, sessions>>

None    == -1
Refused == -1
UserLevels == 0 .. 2

Happens == events > 0 /\ events' = events - 1

\* Nobody has logged in yet but users, who were each given a token just now.
SessionInit(users, level) ==
  /\ salts = {}
  /\ held = [b \in Browsers |-> None]
  /\ \E given \in [users -> TokenIds] :
       /\ IsInjective(given)
       /\ mine = [b \in Browsers |-> IF b \in users THEN given[b] ELSE None]
       /\ tokens = {[token |-> given[b], client |-> b, level |-> level, left |-> TokenLife] : b \in users}
       /\ sessions = [t \in {given[b] : b \in users} |-> [idle |-> 0, life |-> TokenLife, clockSet |-> FALSE]]

-----------------------------------------------------------------------------
(* Salts *)

FreshSalts == {s \in salts : s.age <= SaltLife}

\* clear_expired_salts goes on from an element it has erased: with an expired
\* salt the program may as well end, and is started again.
MayEnd == FreshSalts # salts

get_salt(b) ==
  /\ Happens
  /\ IF Cardinality(FreshSalts) > MAX_SALTS
     THEN salts' = FreshSalts /\ held' = [held EXCEPT ![b] = None]
     ELSE \E id \in SaltIds \ {s.id : s \in FreshSalts} :
            /\ salts' = FreshSalts \cup {[id |-> id, text |-> b, age |-> 0]}
            /\ held' = [held EXCEPT ![b] = id]
  /\ UNCHANGED <<tokens, mine, sessions>>

\* A new process knows no salt and no token.
Restarted ==
  /\ salts' = {} /\ tokens' = {} /\ sessions' = <<>>
  /\ mine' = [b \in Browsers |-> None]
  /\ UNCHANGED held

EndedByExpiredSalt ==
  /\ MayEnd
  /\ Happens
  /\ Restarted

-----------------------------------------------------------------------------
(* Tokens *)

Live == {t \in tokens : t.left >= 0}

NewToken(b, level) ==
  \E token \in TokenIds \ DOMAIN sessions :
    /\ tokens' = Live \cup {[token |-> token, client |-> b, level |-> level, left |-> TokenLife]}
    /\ mine' = [mine EXCEPT ![b] = token]
    /\ sessions' = [t \in DOMAIN sessions \cup {token} |->
                      IF t = token THEN [idle |-> 0, life |-> TokenLife, clockSet |-> FALSE]
                      ELSE sessions[t]]

\* A salt serves once, whether the password is right or not.
get_auth_token(b, level, right) ==
  /\ Happens
  /\ held[b] # None
  /\ held' = [held EXCEPT ![b] = None]
  /\ salts' = {s \in FreshSalts : s.id # held[b]}
  /\ IF right /\ \E s \in FreshSalts : s.id = held[b] /\ s.text = b
     THEN NewToken(b, level)
     ELSE tokens' = Live /\ UNCHANGED <<mine, sessions>>

Matching(b, client) == {t \in Live : t.token = mine[b] /\ t.client = client}

\* The level at which a request of b is answered that comes from client.
LevelOf(b, client) ==
  IF Matching(b, client) = {} THEN Refused
  ELSE (CHOOSE t \in Matching(b, client) : TRUE).level

Used(ts) == {[t EXCEPT !.left = UseLife] : t \in ts}

check_auth(b, client) ==
  LET used == Matching(b, client)
  IN  /\ tokens' = (Live \ used) \cup Used(used)
      /\ sessions' = [t \in DOMAIN sessions |->
                        IF t \in {u.token : u \in used}
                        THEN [idle |-> 0, life |-> UseLife, clockSet |-> FALSE]
                        ELSE sessions[t]]
      /\ UNCHANGED <<salts, held, mine>>

test_token(b, client) == check_auth(b, client) /\ UNCHANGED events

-----------------------------------------------------------------------------
(* The clock *)

Moved(ts, jump) == {[t EXCEPT !.left = t.left - jump] : t \in ts}
SaltsMoved(jump) == {[s EXCEPT !.age = s.age + jump] : s \in salts}
TokensAged == {[t EXCEPT !.left = IF t.left > -Horizon THEN t.left - 1 ELSE t.left] : t \in tokens}
SaltsAged  == {[s EXCEPT !.age = IF s.age < Horizon THEN s.age + 1 ELSE s.age] : s \in salts}

\* Seeded fault: the user who set the clock is not given a new expiry.
SetSystemTime_NoUpdate(b, jump) ==
  LET used == Matching(b, b)
  IN  /\ Happens
      /\ used # {}
      /\ tokens' = Moved(Live \ used, jump) \cup Moved(Used(used), jump)
      /\ sessions' = [t \in DOMAIN sessions |->
                        IF t \in {u.token : u \in used}
                        THEN [idle |-> 0, life |-> UseLife, clockSet |-> FALSE]
                        ELSE [sessions[t] EXCEPT !.clockSet = TRUE]]
      /\ salts' = SaltsMoved(jump)
      /\ UNCHANGED <<held, mine>>

\* change_param "system-time", with update_auth_expiry
SetSystemTime(b, jump) ==
  LET used == Matching(b, b)
  IN  /\ Happens
      /\ used # {}
      /\ tokens' = Moved(Live \ used, jump) \cup Used(used)
      /\ sessions' = [t \in DOMAIN sessions |->
                        IF t \in {u.token : u \in used}
                        THEN [idle |-> 0, life |-> UseLife, clockSet |-> FALSE]
                        ELSE [sessions[t] EXCEPT !.clockSet = TRUE]]
      /\ salts' = SaltsMoved(jump)
      /\ UNCHANGED <<held, mine>>

\* The host's request TIM
processTIM(jump) ==
  /\ Happens
  /\ tokens' = Moved(tokens, jump)
  /\ sessions' = [t \in DOMAIN sessions |-> [sessions[t] EXCEPT !.clockSet = TRUE]]
  /\ salts' = SaltsMoved(jump)
  /\ UNCHANGED <<held, mine>>

\* Nothing changes any more for a token when it has been idle for longer.
MaxIdle == UseLife + 1
Idle(t) == IF sessions[t].idle < MaxIdle THEN sessions[t].idle + 1 ELSE MaxIdle

Tick ==
  /\ \E t \in DOMAIN sessions : sessions[t].idle < MaxIdle
  /\ tokens' = TokensAged
  /\ sessions' = [t \in DOMAIN sessions |-> [sessions[t] EXCEPT !.idle = Idle(t)]]
  /\ salts' = SaltsAged
  /\ UNCHANGED <<held, mine, events>>

LogIn(b) ==
  \/ get_salt(b)
  \/ \E level \in UserLevels, right \in BOOLEAN : get_auth_token(b, level, right)

SetClock ==
  \/ \E b \in Browsers, jump \in Jumps : SetSystemTime(b, jump)
  \/ \E jump \in Jumps : processTIM(jump)
  \/ \E b, client \in Browsers : test_token(b, client)

-----------------------------------------------------------------------------
\* A token that was given out is accepted for as long as its life, counted
\* from its last use, and no longer, as long as nobody but its user has set
\* the clock since: setting the clock, forwards or backwards, neither ends nor
\* prolongs the session of the user who sets it.
SessionKept ==
  \A token \in DOMAIN sessions :
    LET s == sessions[token]
    IN  ~s.clockSet => ((\E t \in Live : t.token = token) <=> s.idle <= s.life)
=============================================================================
