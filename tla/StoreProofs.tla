---------------------------- MODULE StoreProofs -----------------------------
(***************************************************************************)
(* Proofs about the store: the sessions of the browsers, the listing of    *)
(* its directories, the conversions of a picture, which undo each other    *)
(* for every picture where a run tries a few of the 2^2880, the lists of   *)
(* the image library, and that everyone is shown what was meant by the     *)
(* last writer of a picture.                                               *)
(***************************************************************************)
EXTENDS Store, WellFoundedInduction, SequenceTheorems, TLAPS

-----------------------------------------------------------------------------
(* Sessions *)

Token   == [token : DOMAIN sessions, client : Browsers, level : UserLevels, left : Int]
Session == [idle : 0 .. MaxIdle, life : 0 .. UseLife, clockSet : BOOLEAN]

\* A session that is not over has the one token of its name, with the time
\* that is left of its life; of one that is over no token is alive.
AliveInStep ==
  \A k \in DOMAIN sessions : ~sessions[k].clockSet =>
    IF sessions[k].idle <= sessions[k].life
    THEN \E t \in tokens : t.token = k /\ t.left = sessions[k].life - sessions[k].idle
    ELSE \A t \in tokens : t.token = k => t.left < 0

SessionInv ==
  /\ tokens \subseteq Token
  /\ sessions \in [DOMAIN sessions -> Session]
  /\ \A t, u \in tokens : t.token = u.token => t = u
  /\ AliveInStep

LEMMA SessionStart == Init => SessionInv
<1> SUFFICES ASSUME Init PROVE SessionInv
  OBVIOUS
<1>1. PICK level \in scene.levels : SessionInit(scene.loggedIn, level) BY DEF Init
<1>2. level \in UserLevels /\ scene.loggedIn \subseteq Browsers
  BY <1>1, StoreAssumption DEF Init
<1>3. PICK given \in [scene.loggedIn -> TokenIds] :
        /\ IsInjective(given)
        /\ tokens = {[token |-> given[b], client |-> b, level |-> level, left |-> TokenLife] : b \in scene.loggedIn}
        /\ sessions = [t \in {given[b] : b \in scene.loggedIn} |-> [idle |-> 0, life |-> TokenLife, clockSet |-> FALSE]]
  BY <1>1 DEF SessionInit
<1>4. TokenLife \in 0 .. UseLife /\ UseLife \in Nat BY SessionAssumption
<1>5. DOMAIN sessions = {given[b] : b \in scene.loggedIn} BY <1>3
<1>6. tokens \subseteq Token BY <1>2, <1>3, <1>4, <1>5 DEF Token
<1>7. sessions \in [DOMAIN sessions -> Session] BY <1>3, <1>4, <1>5 DEF Session, MaxIdle
<1>8. \A t, u \in tokens : t.token = u.token => t = u BY <1>3 DEF IsInjective
<1>9. AliveInStep
  <2> SUFFICES ASSUME NEW k \in DOMAIN sessions
               PROVE  \E t \in tokens : t.token = k /\ t.left = sessions[k].life - sessions[k].idle
                      /\ sessions[k].idle <= sessions[k].life
    BY DEF AliveInStep
  <2>1. PICK b \in scene.loggedIn : k = given[b] BY <1>5
  <2>2. sessions[k] = [idle |-> 0, life |-> TokenLife, clockSet |-> FALSE] BY <1>3, <1>5
  <2>3. [token |-> given[b], client |-> b, level |-> level, left |-> TokenLife] \in tokens BY <1>3
  <2> QED BY <2>1, <2>2, <2>3, <1>4
<1> QED BY <1>6, <1>7, <1>8, <1>9 DEF SessionInv

Renewed(t) == [t EXCEPT !.left = UseLife]

LEMMA UsedTokens ==
  ASSUME SessionInv, NEW b, NEW c
  PROVE  /\ Matching(b, c) \subseteq Live /\ Live \subseteq tokens
         /\ \A t \in Matching(b, c) :
              /\ Renewed(t) \in Token
              /\ Renewed(t).token = t.token
              /\ Renewed(t).left = UseLife
  BY SessionAssumption DEF SessionInv, Matching, Live, Token, Renewed

\* Whoever keeps session and live tokens of a name keeps them in step.
LEMMA SameSession ==
  ASSUME SessionInv, NEW k \in DOMAIN sessions, ~sessions'[k].clockSet,
         sessions'[k] = sessions[k],
         \A t \in tokens' : t.token = k => t \in Live,
         \A t \in Live : t.token = k => t \in tokens'
  PROVE  IF sessions'[k].idle <= sessions'[k].life
         THEN \E t \in tokens' : t.token = k /\ t.left = sessions'[k].life - sessions'[k].idle
         ELSE \A t \in tokens' : t.token = k => t.left < 0
<1>1. IF sessions[k].idle <= sessions[k].life
      THEN \E t \in tokens : t.token = k /\ t.left = sessions[k].life - sessions[k].idle
      ELSE \A t \in tokens : t.token = k => t.left < 0
  BY DEF SessionInv, AliveInStep
<1>2. PICK i \in Int, l \in Int : sessions[k].idle = i /\ sessions[k].life = l
  BY DEF SessionInv, Session, MaxIdle
<1>3. CASE i <= l
  <2>1. PICK t \in tokens : t.token = k /\ t.left = l - i BY <1>1, <1>2, <1>3
  <2>2. t \in Live BY <1>2, <1>3, <2>1 DEF Live
  <2> QED BY <1>2, <1>3, <2>1, <2>2
<1>4. CASE ~(i <= l)
  BY <1>1, <1>2, <1>4 DEF Live
<1> QED BY <1>3, <1>4

\* A step in which a request's token is used: rest is what it leaves of the
\* other tokens.
LEMMA UsedStep ==
  ASSUME SessionInv, NEW b, NEW c, NEW rest \in SUBSET Token,
         \A t, u \in rest : t.token = u.token => t = u,
         \A t \in rest : \E u \in Live \ Matching(b, c) : u.token = t.token,
         tokens' = rest \cup Used(Matching(b, c)),
         sessions' \in [DOMAIN sessions -> Session],
         \A k \in DOMAIN sessions :
           IF k \in {u.token : u \in Matching(b, c)}
           THEN sessions'[k] = [idle |-> 0, life |-> UseLife, clockSet |-> FALSE]
           ELSE \/ sessions'[k].clockSet
                \/ sessions'[k] = sessions[k] /\ rest = Live \ Matching(b, c)
  PROVE  SessionInv'
<1> DEFINE used == Matching(b, c)
           names == {u.token : u \in used}
<1>1. DOMAIN sessions' = DOMAIN sessions /\ Token' = Token BY DEF Token
<1>2. Used(used) = {Renewed(t) : t \in used} BY DEF Used, Renewed
<1>3. \A x, y \in tokens : x.token = y.token => x = y BY DEF SessionInv
<1>4. \A x \in used : Renewed(x).token = x.token /\ x \in tokens /\ x.token \in names
  BY UsedTokens
<1>5. ASSUME NEW t \in tokens'
      PROVE  \/ t \in rest /\ t.token \notin names
             \/ \E u \in used : t = Renewed(u)
  <2>1. CASE t \in rest
    BY <1>3, <2>1, UsedTokens
  <2>2. CASE t \in Used(used)
    BY <2>2, <1>2
  <2> QED BY <2>1, <2>2
<1>6. tokens' \subseteq Token'
  <2> SUFFICES ASSUME NEW t \in tokens' PROVE t \in Token
    BY <1>1
  <2>1. CASE \E u \in used : t = Renewed(u) BY <2>1, UsedTokens
  <2> QED BY <1>5, <2>1
<1>7. sessions' \in [DOMAIN sessions' -> Session] BY <1>1
<1>8. ASSUME NEW t \in tokens', NEW u \in tokens', t.token = u.token
      PROVE  t = u
  <2> HIDE DEF used, names
  <2>1. CASE t \in rest /\ t.token \notin names
    <3>1. u \in rest BY <1>4, <1>5, <1>8, <2>1
    <3> QED BY <1>8, <2>1, <3>1
  <2>2. CASE \E x \in used : t = Renewed(x)
    <3>1. PICK x \in used : t = Renewed(x) BY <2>2
    <3>2. u.token \in names BY <1>4, <1>8, <3>1
    <3>3. PICK y \in used : u = Renewed(y) BY <1>5, <3>2
    <3> QED BY <1>3, <1>4, <1>8, <3>1, <3>3
  <2> QED BY <1>5, <2>1, <2>2
<1>9. AliveInStep'
  <2> SUFFICES ASSUME NEW k \in DOMAIN sessions, ~sessions'[k].clockSet
               PROVE  IF sessions'[k].idle <= sessions'[k].life
                      THEN \E t \in tokens' : t.token = k /\ t.left = sessions'[k].life - sessions'[k].idle
                      ELSE \A t \in tokens' : t.token = k => t.left < 0
    BY <1>1 DEF AliveInStep
  <2>1. CASE k \in names
    <3>1. PICK u \in used : u.token = k BY <2>1
    <3>2. sessions'[k].idle = 0 /\ sessions'[k].life = UseLife BY <2>1
    <3>3. Renewed(u) \in tokens' BY <1>2, <3>1
    <3>4. Renewed(u).token = k /\ Renewed(u).left = UseLife BY <3>1, UsedTokens
    <3>5. UseLife \in Nat BY SessionAssumption
    <3> QED BY <3>2, <3>3, <3>4, <3>5
  <2>2. CASE k \notin names
    <3>1. sessions'[k] = sessions[k] /\ rest = Live \ used BY <2>2
    <3> HIDE DEF used, names
    <3>2. \A t \in tokens' : t.token = k => t \in Live
      BY <1>4, <1>5, <2>2, <3>1
    <3>3. \A t \in Live : t.token = k => t \in rest BY <1>4, <2>2, <3>1
    <3> QED BY <3>1, <3>2, <3>3, SameSession
  <2> QED BY <2>1, <2>2
<1> QED BY <1>6, <1>7, <1>8, <1>9 DEF SessionInv

LEMMA FreshSession ==
  /\ [idle |-> 0, life |-> UseLife, clockSet |-> FALSE] \in Session
  /\ [idle |-> 0, life |-> TokenLife, clockSet |-> FALSE] \in Session
  /\ \A s \in Session : [s EXCEPT !.clockSet = TRUE] \in Session
<1>1. TokenLife \in 0 .. UseLife /\ UseLife \in 0 .. UseLife /\ 0 \in 0 .. MaxIdle
  BY SessionAssumption DEF MaxIdle
<1>2. [idle |-> 0, life |-> UseLife, clockSet |-> FALSE] \in Session BY <1>1 DEF Session
<1>3. [idle |-> 0, life |-> TokenLife, clockSet |-> FALSE] \in Session BY <1>1 DEF Session
<1>4. \A s \in Session : [s EXCEPT !.clockSet = TRUE] \in Session BY DEF Session
<1> QED BY <1>2, <1>3, <1>4

LEMMA CheckAuthStep ==
  ASSUME SessionInv, NEW b, NEW c, check_auth(b, c)
  PROVE  SessionInv'
<1>1. PICK rest \in SUBSET Token : rest = Live \ Matching(b, c)
  BY UsedTokens DEF SessionInv
<1>2. tokens' = rest \cup Used(Matching(b, c)) BY <1>1 DEF check_auth
<1>3. \A t, u \in rest : t.token = u.token => t = u BY <1>1, UsedTokens DEF SessionInv
<1>4. sessions' = [k \in DOMAIN sessions |->
                     IF k \in {u.token : u \in Matching(b, c)}
                     THEN [idle |-> 0, life |-> UseLife, clockSet |-> FALSE]
                     ELSE sessions[k]]
  BY DEF check_auth
<1>5. sessions' \in [DOMAIN sessions -> Session] BY <1>4, FreshSession DEF SessionInv
<1> QED BY <1>1, <1>2, <1>3, <1>4, <1>5, UsedStep

\* Setting the clock moves the time left of all other tokens.
LEMMA MovedTokens ==
  ASSUME NEW T \in SUBSET Token, \A t, u \in T : t.token = u.token => t = u,
         NEW jump \in Int
  PROVE  /\ Moved(T, jump) \in SUBSET Token
         /\ \A t, u \in Moved(T, jump) : t.token = u.token => t = u
         /\ \A t \in Moved(T, jump) : \E u \in T : u.token = t.token
<1>1. \A t \in T : /\ [t EXCEPT !.left = t.left - jump] \in Token
                   /\ [t EXCEPT !.left = t.left - jump].token = t.token
  BY DEF Token
<1>2. Moved(T, jump) \in SUBSET Token BY <1>1 DEF Moved
<1>3. \A m \in Moved(T, jump) : \E t \in T : m = [t EXCEPT !.left = t.left - jump] BY DEF Moved
<1>4. \A m \in Moved(T, jump) : \E t \in T : m = [t EXCEPT !.left = t.left - jump] /\ t.token = m.token
  BY <1>1, <1>3
<1>5. ASSUME NEW m \in Moved(T, jump), NEW n \in Moved(T, jump), m.token = n.token
      PROVE  m = n
  <2>1. PICK t \in T : m = [t EXCEPT !.left = t.left - jump] /\ t.token = m.token BY <1>4
  <2>2. PICK u \in T : n = [u EXCEPT !.left = u.left - jump] /\ u.token = n.token BY <1>4
  <2>3. t = u BY <1>5, <2>1, <2>2
  <2> QED BY <2>1, <2>2, <2>3, Zenon
<1> QED BY <1>2, <1>4, <1>5

LEMMA SetSystemTimeStep ==
  ASSUME SessionInv, NEW b, NEW jump \in Int, SetSystemTime(b, jump)
  PROVE  SessionInv'
<1>1. PICK others \in SUBSET Token : others = Live \ Matching(b, b)
  BY UsedTokens DEF SessionInv
<1>2. \A t, u \in others : t.token = u.token => t = u BY <1>1, UsedTokens DEF SessionInv
<1>3. PICK rest \in SUBSET Token : rest = Moved(others, jump) BY <1>2, MovedTokens
<1>4. /\ \A t, u \in rest : t.token = u.token => t = u
      /\ \A t \in rest : \E u \in Live \ Matching(b, b) : u.token = t.token
  BY <1>1, <1>2, <1>3, MovedTokens
<1>5. tokens' = rest \cup Used(Matching(b, b)) BY <1>1, <1>3 DEF SetSystemTime
<1>6. sessions' = [k \in DOMAIN sessions |->
                     IF k \in {u.token : u \in Matching(b, b)}
                     THEN [idle |-> 0, life |-> UseLife, clockSet |-> FALSE]
                     ELSE [sessions[k] EXCEPT !.clockSet = TRUE]]
  BY DEF SetSystemTime
<1>7. sessions' \in [DOMAIN sessions -> Session] BY <1>6, FreshSession DEF SessionInv
<1>8. \A s \in Session : [s EXCEPT !.clockSet = TRUE].clockSet BY DEF Session
<1>9. \A k \in DOMAIN sessions : sessions[k] \in Session BY DEF SessionInv
<1> QED BY <1>4, <1>5, <1>6, <1>7, <1>8, <1>9, UsedStep

LEMMA HostTimeStep ==
  ASSUME SessionInv, NEW jump \in Int, processTIM(jump)
  PROVE  SessionInv'
<1>1. tokens' = Moved(tokens, jump) BY DEF processTIM
<1>2. sessions' = [t \in DOMAIN sessions |-> [sessions[t] EXCEPT !.clockSet = TRUE]]
  BY DEF processTIM
<1>3. sessions' \in [DOMAIN sessions -> Session] BY <1>2, FreshSession DEF SessionInv
<1>4. Token' = Token BY <1>3 DEF Token
<1>5. /\ tokens' \in SUBSET Token
      /\ \A t, u \in tokens' : t.token = u.token => t = u
  BY <1>1, MovedTokens DEF SessionInv
<1>6. \A k \in DOMAIN sessions' : sessions'[k].clockSet
  BY <1>2 DEF SessionInv, Session
<1> QED BY <1>3, <1>4, <1>5, <1>6 DEF SessionInv, AliveInStep

\* Tokens that have expired are forgotten, which tells on no session.
LEMMA LiveStep ==
  ASSUME SessionInv, tokens' = Live, sessions' = sessions
  PROVE  SessionInv'
<1>1. tokens' \subseteq tokens BY DEF Live
<1>2. AliveInStep'
  <2> SUFFICES ASSUME NEW k \in DOMAIN sessions, ~sessions'[k].clockSet
               PROVE  IF sessions'[k].idle <= sessions'[k].life
                      THEN \E t \in tokens' : t.token = k /\ t.left = sessions'[k].life - sessions'[k].idle
                      ELSE \A t \in tokens' : t.token = k => t.left < 0
    BY DEF AliveInStep
  <2> QED BY SameSession
<1> QED BY <1>1, <1>2 DEF SessionInv, Token

LEMMA NewTokenStep ==
  ASSUME SessionInv, NEW b \in Browsers, NEW level \in UserLevels, NewToken(b, level)
  PROVE  SessionInv'
<1>1. PICK name \in TokenIds \ DOMAIN sessions :
        /\ tokens' = Live \cup {[token |-> name, client |-> b, level |-> level, left |-> TokenLife]}
        /\ sessions' = [t \in DOMAIN sessions \cup {name} |->
                          IF t = name THEN [idle |-> 0, life |-> TokenLife, clockSet |-> FALSE]
                          ELSE sessions[t]]
  BY DEF NewToken
<1>2. PICK new : new = [token |-> name, client |-> b, level |-> level, left |-> TokenLife]
  OBVIOUS
<1>3. /\ new.token = name /\ new.left = TokenLife /\ TokenLife \in Nat
      /\ tokens' = Live \cup {new}
      /\ DOMAIN sessions' = DOMAIN sessions \cup {name}
  BY <1>1, <1>2, SessionAssumption
<1>4. new \in Token' BY <1>2, <1>3 DEF Token
<1>5. \A t \in Live : t \in tokens /\ t \in Token /\ t.token # name
  BY <1>1 DEF SessionInv, Token, Live
<1>6. tokens' \subseteq Token'
  <2>1. Token \subseteq Token' BY <1>3 DEF Token
  <2> QED BY <1>3, <1>4, <1>5, <2>1
<1>7. sessions' \in [DOMAIN sessions' -> Session]
  BY <1>1, <1>3, FreshSession DEF SessionInv
<1>8. \A t, u \in tokens' : t.token = u.token => t = u
  BY <1>3, <1>5 DEF SessionInv
<1>9. AliveInStep'
  <2> SUFFICES ASSUME NEW k \in DOMAIN sessions', ~sessions'[k].clockSet
               PROVE  IF sessions'[k].idle <= sessions'[k].life
                      THEN \E t \in tokens' : t.token = k /\ t.left = sessions'[k].life - sessions'[k].idle
                      ELSE \A t \in tokens' : t.token = k => t.left < 0
    BY DEF AliveInStep
  <2>1. CASE k = name
    <3>1. sessions'[k].idle = 0 /\ sessions'[k].life = TokenLife BY <1>1, <2>1
    <3> QED BY <1>3, <2>1, <3>1
  <2>2. CASE k # name
    <3>1. k \in DOMAIN sessions /\ sessions'[k] = sessions[k] BY <1>1, <1>3, <2>2
    <3>2. \A t \in tokens' : t.token = k => t \in Live BY <1>3, <2>2
    <3>3. \A t \in Live : t.token = k => t \in tokens' BY <1>3
    <3> QED BY <3>1, <3>2, <3>3, SameSession
  <2> QED BY <2>1, <2>2
<1> QED BY <1>6, <1>7, <1>8, <1>9 DEF SessionInv

\* A second passes: a token ages with its session.
Older(t) == [t EXCEPT !.left = IF t.left > -Horizon THEN t.left - 1 ELSE t.left]

LEMMA OlderToken ==
  ASSUME NEW t \in Token
  PROVE  /\ Older(t) \in Token /\ Older(t).token = t.token
         /\ t.left >= 0 => Older(t).left = t.left - 1
         /\ t.left < 0 => Older(t).left < 0
<1>1. PICK h \in Nat : h = Horizon /\ h > 0 BY SessionAssumption
<1>2. PICK l \in Int : l = t.left BY DEF Token
<1>3. PICK m \in Int : m = IF l > -h THEN l - 1 ELSE l BY <1>2
<1>4. Older(t) = [t EXCEPT !.left = m] BY <1>1, <1>2, <1>3 DEF Older
<1>5. Older(t) \in Token /\ Older(t).token = t.token /\ Older(t).left = m BY <1>4 DEF Token
<1>6. (l >= 0 => m = l - 1) /\ (l < 0 => m < 0) BY <1>1, <1>3
<1> QED BY <1>2, <1>5, <1>6

LEMMA TickStep ==
  ASSUME SessionInv, Tick
  PROVE  SessionInv'
<1>1. tokens' = {Older(t) : t \in tokens} BY DEF Tick, TokensAged, Older
<1>2. sessions' = [t \in DOMAIN sessions |-> [sessions[t] EXCEPT !.idle = Idle(t)]]
  BY DEF Tick
<1>3. \A x, y \in tokens : x.token = y.token => x = y BY DEF SessionInv
<1>4. \A t \in tokens : /\ t \in Token /\ Older(t) \in Token /\ Older(t).token = t.token
                        /\ t.left >= 0 => Older(t).left = t.left - 1
                        /\ t.left < 0 => Older(t).left < 0
  BY OlderToken DEF SessionInv
<1>5. UseLife \in Nat /\ MaxIdle = UseLife + 1 BY SessionAssumption DEF MaxIdle
<1>6. ASSUME NEW k \in DOMAIN sessions
      PROVE  /\ sessions'[k] \in Session
             /\ sessions'[k].life = sessions[k].life /\ sessions'[k].clockSet = sessions[k].clockSet
             /\ sessions'[k].idle = IF sessions[k].idle < MaxIdle THEN sessions[k].idle + 1 ELSE MaxIdle
  <2>1. PICK i \in 0 .. MaxIdle, l \in 0 .. UseLife, c \in BOOLEAN :
          sessions[k] = [idle |-> i, life |-> l, clockSet |-> c]
    BY DEF SessionInv, Session
  <2>2. sessions'[k] = [idle |-> Idle(k), life |-> l, clockSet |-> c] BY <1>2, <2>1
  <2>3. Idle(k) = IF i < MaxIdle THEN i + 1 ELSE MaxIdle BY <2>1 DEF Idle
  <2>4. Idle(k) \in 0 .. MaxIdle BY <1>5, <2>3
  <2> QED BY <2>1, <2>2, <2>3, <2>4 DEF Session
<1>7. DOMAIN sessions' = DOMAIN sessions /\ Token' = Token BY <1>2 DEF Token
<1>8. sessions' \in [DOMAIN sessions' -> Session] BY <1>2, <1>6
<1>9. tokens' \subseteq Token' BY <1>1, <1>4, <1>7
<1>10. \A t, u \in tokens' : t.token = u.token => t = u BY <1>1, <1>3, <1>4
<1>11. AliveInStep'
  <2> SUFFICES ASSUME NEW k \in DOMAIN sessions, ~sessions'[k].clockSet
               PROVE  IF sessions'[k].idle <= sessions'[k].life
                      THEN \E t \in tokens' : t.token = k /\ t.left = sessions'[k].life - sessions'[k].idle
                      ELSE \A t \in tokens' : t.token = k => t.left < 0
    BY <1>7 DEF AliveInStep
  <2>1. PICK i \in 0 .. MaxIdle, l \in 0 .. UseLife : i = sessions[k].idle /\ l = sessions[k].life
    BY DEF SessionInv, Session
  <2>2. IF i <= l THEN \E t \in tokens : t.token = k /\ t.left = l - i
        ELSE \A t \in tokens : t.token = k => t.left < 0
    BY <1>6, <2>1 DEF SessionInv, AliveInStep
  <2>3. sessions'[k].life = l /\ sessions'[k].idle = IF i < MaxIdle THEN i + 1 ELSE MaxIdle
    BY <1>6, <2>1
  <2>4. CASE i <= l
    <3>1. PICK t \in tokens : t.token = k /\ t.left = l - i BY <2>2, <2>4
    <3>2. Older(t) \in tokens' /\ Older(t).token = k /\ Older(t).left = l - (i + 1)
      BY <1>1, <1>4, <2>4, <3>1
    <3>3. sessions'[k].idle = i + 1 BY <1>5, <2>3, <2>4
    <3>4. CASE i + 1 <= l BY <2>3, <3>2, <3>3, <3>4
    <3>5. CASE ~(i + 1 <= l)
      <4>1. \A u \in tokens' : u.token = k => u = Older(t) BY <1>10, <3>2
      <4>2. Older(t).left < 0 BY <3>2, <3>5
      <4> QED BY <2>3, <3>3, <3>5, <4>1, <4>2
    <3> QED BY <3>4, <3>5
  <2>5. CASE ~(i <= l)
    <3>1. \A t \in tokens : t.token = k => Older(t).left < 0 BY <1>4, <2>2, <2>5
    <3>2. \A u \in tokens' : u.token = k => u.left < 0 BY <1>1, <1>4, <3>1
    <3>3. ~(sessions'[k].idle <= sessions'[k].life) BY <1>5, <2>3, <2>5
    <3> QED BY <3>2, <3>3
  <2> QED BY <2>4, <2>5
<1> QED BY <1>8, <1>9, <1>10, <1>11 DEF SessionInv

LEMMA RestartedStep ==
  ASSUME Restarted
  PROVE  SessionInv'
<1>1. tokens' = {} /\ DOMAIN sessions' = {} /\ sessions' \in [{} -> Session]
  BY DEF Restarted
<1> QED BY <1>1 DEF SessionInv, AliveInStep

LEMMA SameSessions ==
  ASSUME SessionInv, UNCHANGED <<tokens, sessions>>
  PROVE  SessionInv'
  BY DEF SessionInv, AliveInStep, Token

LEMMA ProcessKeepsSessions == scene \in Scenes /\ SessionInv /\ [Next]_vars => SessionInv'
<1> SUFFICES ASSUME scene \in Scenes, SessionInv, [Next]_vars PROVE SessionInv'
  OBVIOUS
<1>1. ASSUME NEW b \in scene.browsers, Asked("logins"), LogIn(b) PROVE SessionInv'
  <2>0. b \in Browsers BY <1>1, StoreAssumption
  <2>1. CASE get_salt(b) BY <2>1, SameSessions DEF get_salt
  <2>2. ASSUME NEW level \in UserLevels, NEW right \in BOOLEAN, get_auth_token(b, level, right)
        PROVE  SessionInv'
    <3>1. CASE NewToken(b, level) BY <2>0, <3>1, NewTokenStep
    <3>2. CASE tokens' = Live /\ UNCHANGED sessions BY <3>2, LiveStep
    <3> QED BY <2>2, <3>1, <3>2 DEF get_auth_token
  <2> QED BY <1>1, <2>1, <2>2 DEF LogIn
<1>2. CASE Tick BY <1>2, TickStep
<1>3. CASE EndedByExpiredSalt BY <1>3, RestartedStep DEF EndedByExpiredSalt
<1>4. CASE SetClock
  <2>1. ASSUME NEW b \in Browsers, NEW jump \in Jumps, SetSystemTime(b, jump) PROVE SessionInv'
    BY <2>1, SetSystemTimeStep, SessionAssumption
  <2>2. ASSUME NEW jump \in Jumps, processTIM(jump) PROVE SessionInv'
    BY <2>2, HostTimeStep, SessionAssumption
  <2>3. ASSUME NEW b, NEW c, test_token(b, c) PROVE SessionInv'
    BY <2>3, CheckAuthStep DEF test_token
  <2> QED BY <1>4, <2>1, <2>2, <2>3 DEF SetClock
<1>5. ASSUME NEW b, ListDirectories(b) \/ ChangeFiles(b) PROVE SessionInv'
  <2>1. ASSUME NEW path, list_folder(b, path) PROVE SessionInv'
    BY <2>1, CheckAuthStep DEF list_folder
  <2>2. ASSUME NEW dir, NEW name, delete_file(b, dir, name) PROVE SessionInv'
    BY <2>2, CheckAuthStep DEF delete_file
  <2>3. CASE UNCHANGED sessionVars BY <2>3, SameSessions DEF sessionVars
  <2> QED BY <1>5, <2>1, <2>2, <2>3
       DEF ListDirectories, ChangeFiles, processGDL, processCDL, processEFC, Logged
<1>6. ASSUME NEW n, NEW picture, processBMP(n, picture) PROVE SessionInv'
  BY <1>6, SameSessions DEF processBMP, sessionVars
<1>7. ASSUME NEW b, NEW id, edit_image(b, id) PROVE SessionInv'
  BY <1>7, CheckAuthStep DEF edit_image
<1>8. ASSUME NEW b, NEW p, on_editor_mousemove(b, p) PROVE SessionInv'
  BY <1>8, SameSessions DEF on_editor_mousemove, sessionVars
<1>9. ASSUME NEW b, save_bitmap(b) PROVE SessionInv'
  BY <1>9, CheckAuthStep DEF save_bitmap
<1>10. ASSUME NEW b, GiveUp(b) \/ load_from_library(b) PROVE SessionInv'
  BY <1>10, SameSessions DEF GiveUp, load_from_library, sessionVars
<1>11. ASSUME NEW c, Reconfigured(c) PROVE SessionInv'
  BY <1>11, SameSessions DEF Reconfigured, sessionVars
<1>12. ASSUME NEW b, NEW i, select_library_image(b, i) PROVE SessionInv'
  BY <1>12, CheckAuthStep DEF select_library_image
<1>13. ASSUME NEW b, NEW uploaded, upload(b, uploaded) PROVE SessionInv'
  BY <1>13, CheckAuthStep DEF upload
<1>14. CASE UNCHANGED vars BY <1>14, SameSessions DEF vars, sessionVars
<1> QED BY <1>1, <1>2, <1>3, <1>4, <1>5, <1>6, <1>7, <1>8, <1>9, <1>10, <1>11, <1>12, <1>13, <1>14
        DEF Next, Process

LEMMA SessionInvImplies == SessionInv => SessionKept
<1> SUFFICES ASSUME SessionInv, NEW k \in DOMAIN sessions, ~sessions[k].clockSet
             PROVE  (\E t \in Live : t.token = k) <=> sessions[k].idle <= sessions[k].life
  BY DEF SessionKept
<1>1. PICK i \in Int, l \in Int : i = sessions[k].idle /\ l = sessions[k].life
  BY DEF SessionInv, Session, MaxIdle
<1>2. IF i <= l THEN \E t \in tokens : t.token = k /\ t.left = l - i
      ELSE \A t \in tokens : t.token = k => t.left < 0
  BY <1>1 DEF SessionInv, AliveInStep
<1>3. \A t \in tokens : t.left \in Int BY DEF SessionInv, Token
<1>4. CASE i <= l
  <2>1. PICK t \in tokens : t.token = k /\ t.left = l - i BY <1>2, <1>4
  <2>2. t \in Live BY <1>4, <2>1 DEF Live
  <2> QED BY <1>1, <1>4, <2>1, <2>2
<1>5. CASE ~(i <= l)
  <2>1. \A t \in Live : t.token # k BY <1>2, <1>3, <1>5 DEF Live
  <2> QED BY <1>1, <1>5, <2>1
<1> QED BY <1>4, <1>5

\* SessionKept, for every number of browsers, life of a token and setting of
\* the clock: no sequence of logins, requests and clock changes ends or
\* prolongs the session of a user whom nobody else has set the clock for.
THEOREM SessionKeptHolds == Spec => []SessionKept
<1>1. Init => scene \in Scenes BY DEF Init
<1>2. scene \in Scenes /\ [Next]_vars => (scene \in Scenes)' BY DEF Next, vars
<1> QED BY <1>1, <1>2, SessionStart, ProcessKeepsSessions, SessionInvImplies, PTL DEF Spec

-----------------------------------------------------------------------------
(* Listing *)

LEMMA LessThan == IsWellFoundedOn({ss \in Nat \X Nat : ss[1] < ss[2]}, Nat)
  BY NatLessThanWellFounded, Zenon DEF OpToRel

LEMMA MinOfPlaces ==
  ASSUME NEW S \in SUBSET Nat, S # {}
  PROVE  Min(S) \in S /\ \A y \in S : Min(S) <= y
<1>1. PICK R : R = {ss \in Nat \X Nat : ss[1] < ss[2]} OBVIOUS
<1>2. PICK x \in S : \A y \in S : ~ (<<y, x>> \in R) BY <1>1, LessThan, WFMin
<1>3. \A y \in S : <<y, x>> \in R <=> y < x BY <1>1
<1>4. \A y \in S : ~ (y < x) BY <1>2, <1>3, Zenon
<1>5. \A y \in S : x <= y BY <1>4
<1> QED BY <1>5 DEF Min

ScanStops(S, dir, list, from, room) ==
  \E p \in from .. Len(list) + 1 :
    /\ S.mask = dir /\ S.list = list /\ S.place = p
    /\ S.given = SubSeq(list, from, p - 1)
    /\ p = Len(list) + 1 => S.info = [valid |-> TRUE, name |-> NoName]
    /\ p # Len(list) + 1 => S.info = [valid |-> list[p] \in files[dir], name |-> list[p]]
    /\ p = Len(list) + 1 \/ p = from + room \/ list[p] \notin files[dir]

\* ffind stops where there is no more room, at a name whose file is gone or
\* behind the last.
LEMMA ScanFacts ==
  ASSUME NEW dir, NEW list \in Seq(Names), NEW from \in 1 .. Len(list) + 1, NEW room \in Nat,
         NEW S, S = Scan(dir, list, from, room)
  PROVE  ScanStops(S, dir, list, from, room)
<1>1. PICK end \in Nat : end = Len(list) + 1 OBVIOUS
<1>2. PICK P : P = {q \in from .. end : q = end \/ q = from + room \/ list[q] \notin files[dir]}
  OBVIOUS
<1>3. P \in SUBSET Nat /\ end \in P
  <2>1. from \in Nat /\ end \in from .. end BY <1>1
  <2> QED BY <1>2, <2>1
<1>4. PICK p \in P : p = Min(P) BY <1>3, MinOfPlaces
<1>5. PICK info : info = IF p = end THEN [valid |-> TRUE, name |-> NoName]
                         ELSE [valid |-> list[p] \in files[dir], name |-> list[p]]
  OBVIOUS
<1>6. PICK given : given = SubSeq(list, from, p - 1) OBVIOUS
<1>7. S.mask = dir /\ S.list = list /\ S.place = p /\ S.given = SubSeq(list, from, p - 1)
      /\ S.info = info
  <2>1. S = [mask |-> dir, list |-> list, place |-> p, given |-> given, info |-> info]
    BY <1>1, <1>2, <1>4, <1>5, <1>6, Zenon DEF Scan
  <2>2. S.mask = dir /\ S.list = list /\ S.place = p /\ S.given = given /\ S.info = info
    BY <2>1
  <2> QED BY <1>6, <2>2
<1>8. p \in from .. Len(list) + 1
      /\ (p = Len(list) + 1 \/ p = from + room \/ list[p] \notin files[dir])
  BY <1>1, <1>2, <1>4
<1> QED BY <1>1, <1>5, <1>7, <1>8 DEF ScanStops

Heard == [dir : Dirs \cup {NoMask}, given : Seq(Names), all : Seq(Names),
          empty : BOOLEAN, disturbed : BOOLEAN, deleted : BOOLEAN]

\* While nobody disturbs it, the place of ffind is that of the host in its
\* list, and the name it keeps is the next.
AtPlace ==
  /\ lastmask = heard.dir /\ dirList = heard.all
  /\ indexPtr \in 1 .. Len(heard.all) + 1
  /\ heard.given = SubSeq(heard.all, 1, indexPtr - 1)
  /\ indexPtr = Len(heard.all) + 1 => FileSearchInfo.valid /\ FileSearchInfo.name = NoName
  /\ indexPtr # Len(heard.all) + 1 => FileSearchInfo.name = heard.all[indexPtr]
  /\ ~heard.deleted => /\ FileSearchInfo.valid
                       /\ \A i \in 1 .. Len(heard.all) : heard.all[i] \in files[heard.dir]
                       /\ heard.empty => indexPtr = Len(heard.all) + 1

ListingInv ==
  /\ files \in [Dirs -> SUBSET Names]
  /\ heard \in Heard
  /\ "valid" \in DOMAIN FileSearchInfo
  /\ ~heard.disturbed =>
       /\ heard.dir = NoMask => ~FileSearchInfo.valid
       /\ heard.dir # NoMask =>
            /\ FileSearchMask = heard.dir
            /\ heard.all = <<>> => heard.given = <<>> /\ ~FileSearchInfo.valid
            /\ heard.all # <<>> => AtPlace

LEMMA GdlStep ==
  ASSUME ListingInv, NEW dir \in Dirs, processGDL(dir)
  PROVE  ListingInv'
<1>1. files' = files /\ files[dir] \in SUBSET Names BY DEF ListingInv, processGDL
<1>2. PICK all \in Seq(Names) : all = Ls(dir) /\ \A i \in 1 .. Len(all) : all[i] \in files[dir]
  <2>1. ls[files[dir]] \in Seq(files[dir]) BY <1>1, ListingAssumption
  <2>2. ls[files[dir]] \in Seq(Names) /\ \A i \in 1 .. Len(ls[files[dir]]) : ls[files[dir]][i] \in files[dir]
    BY <1>1, <2>1
  <2> QED BY <2>2 DEF Ls
<1>3. PICK S : S = NewSearch(dir, PerAnswer) OBVIOUS
<1>4. /\ FileSearchMask' = dir /\ FileSearchInfo' = S.info
      /\ lastmask' = S.mask /\ dirList' = S.list /\ indexPtr' = S.place
      /\ heard' = [dir |-> dir, given |-> S.given, all |-> all,
                   empty |-> S.given = <<>>, disturbed |-> FALSE, deleted |-> FALSE]
  BY <1>2, <1>3 DEF processGDL, Left
<1>5. dir # NoMask /\ PerAnswer \in Nat /\ PerAnswer > 0 BY ListingAssumption
<1>6. CASE all = <<>>
  <2>1. S = NotFound(dir) BY <1>2, <1>3, <1>6 DEF NewSearch, NoList
  <2>2. S.given = <<>> /\ S.info = [FileSearchInfo EXCEPT !.valid = FALSE]
    BY <2>1 DEF NotFound
  <2>3. "valid" \in DOMAIN S.info /\ ~S.info.valid BY <2>2 DEF ListingInv
  <2>4. heard' \in Heard BY <1>4, <1>6, <2>2 DEF Heard
  <2> QED BY <1>1, <1>4, <1>5, <1>6, <2>2, <2>3, <2>4 DEF ListingInv
<1>7. CASE all # <<>>
  <2>1. Len(all) \in Nat /\ Len(all) >= 1 BY <1>7
  <2>0. 1 \in 1 .. Len(all) + 1 BY <2>1
  <2>2. S = Scan(dir, all, 1, PerAnswer) BY <1>2, <1>3, <1>7 DEF NewSearch, NoList
  <2>3. PICK p \in 1 .. Len(all) + 1 :
          /\ S.mask = dir /\ S.list = all /\ S.place = p
          /\ S.given = SubSeq(all, 1, p - 1)
          /\ p = Len(all) + 1 => S.info = [valid |-> TRUE, name |-> NoName]
          /\ p # Len(all) + 1 => S.info = [valid |-> all[p] \in files[dir], name |-> all[p]]
          /\ p = Len(all) + 1 \/ p = 1 + PerAnswer \/ all[p] \notin files[dir]
    <3>1. ScanStops(S, dir, all, 1, PerAnswer) BY <1>2, <1>5, <2>0, <2>2, ScanFacts
    <3> QED BY <3>1, Zenon DEF ScanStops
  <2>4. p # Len(all) + 1 => p \in 1 .. Len(all) /\ all[p] \in files[dir]
    BY <1>2, <2>1, <2>3
  <2>5. p > 1 BY <1>5, <2>1, <2>3, <2>4
  <2>6. S.given \in Seq(Names) /\ S.given # <<>> BY <2>1, <2>3, <2>5
  <2>7. heard' \in Heard BY <1>4, <2>6 DEF Heard
  <2>8. "valid" \in DOMAIN S.info /\ S.info.valid
        /\ S.info.name = (IF p = Len(all) + 1 THEN NoName ELSE all[p])
    <3>1. CASE p = Len(all) + 1
      <4>1. S.info = [valid |-> TRUE, name |-> NoName] BY <2>3, <3>1
      <4> QED BY <3>1, <4>1
    <3>2. CASE p # Len(all) + 1
      <4>1. (all[p] \in files[dir]) = TRUE BY <2>4, <3>2, Zenon
      <4>2. S.info = [valid |-> TRUE, name |-> all[p]] BY <2>3, <3>2, <4>1, Zenon
      <4> QED BY <3>2, <4>2
    <3> QED BY <3>1, <3>2
  <2>9. AtPlace' BY <1>1, <1>2, <1>4, <2>3, <2>6, <2>8 DEF AtPlace
  <2> QED BY <1>1, <1>4, <1>5, <1>7, <2>7, <2>8, <2>9 DEF ListingInv
<1> QED BY <1>6, <1>7
LEMMA SameListing ==
  ASSUME ListingInv, UNCHANGED listingVars
  PROVE  ListingInv'
  BY DEF ListingInv, AtPlace, listingVars

LEMMA PlaceInList ==
  \A n, at \in Nat : \A p \in at + 1 .. n + 1 : p # n + 1 => p \in 1 .. n
  OBVIOUS

LEMMA PrefixGrows ==
  ASSUME NEW all \in Seq(Names), NEW at \in 1 .. Len(all), NEW p \in at + 1 .. Len(all) + 1
  PROVE  /\ SubSeq(all, 1, at - 1) \o (<<all[at]>> \o SubSeq(all, at + 1, p - 1)) = SubSeq(all, 1, p - 1)
         /\ SubSeq(all, 1, p - 1) \in Seq(Names)
<1>1. PICK q \in at .. Len(all) : q = p - 1 /\ 1 \in 1 .. Len(all) + 1 OBVIOUS
<1>2. SubSeq(all, at, q) = <<all[at]>> \o SubSeq(all, at + 1, q) BY SubSeqRecursiveFirst
<1>3. PICK k \in 1 - 1 .. Len(all) : k = at - 1 /\ at = k + 1 OBVIOUS
<1>4. q \in k .. Len(all) BY <1>1, <1>3
<1>5. SubSeq(all, 1, k) \o SubSeq(all, k + 1, q) = SubSeq(all, 1, q)
  BY <1>1, <1>3, <1>4, ConcatAdjacentSubSeq
<1>6. \A i \in 1 .. q : all[i] \in Names BY <1>1
<1>7. SubSeq(all, 1, q) \in Seq(Names) BY <1>1, <1>6, SubSeqProperties
<1> QED BY <1>1, <1>2, <1>3, <1>5, <1>7

LEMMA CdlStep ==
  ASSUME ListingInv, processCDL
  PROVE  ListingInv'
<1>1. /\ files' = files /\ FileSearchMask' = FileSearchMask
      /\ files \in [Dirs -> SUBSET Names] /\ heard \in Heard
  BY DEF ListingInv, processCDL
<1>2. ASSUME Told(<<>>), UNCHANGED <<findVars, FileSearchInfo>>,
             ~FileSearchInfo.valid \/ NoName \in Pending
      PROVE  ListingInv'
  <2>1. CASE heard.disturbed BY <1>1, <1>2, <2>1 DEF ListingInv, Told
  <2>2. CASE ~heard.disturbed
    <3>0. heard.given \o <<>> = heard.given BY <1>1 DEF Heard
    <3>1. heard' = [heard EXCEPT !.given = heard.given, !.empty = TRUE]
      BY <1>2, <2>2, <3>0 DEF Told
    <3>2. /\ heard' \in Heard /\ heard'.dir = heard.dir /\ heard'.given = heard.given
          /\ heard'.all = heard.all /\ heard'.deleted = heard.deleted
          /\ heard'.disturbed = heard.disturbed /\ heard'.empty
      BY <1>1, <3>1 DEF Heard
    <3>3. /\ lastmask' = lastmask /\ dirList' = dirList /\ indexPtr' = indexPtr
          /\ FileSearchInfo' = FileSearchInfo
      BY <1>2 DEF findVars
    <3>4. ASSUME AtPlace PROVE AtPlace'
      <4>1. ASSUME ~heard.deleted PROVE indexPtr = Len(heard.all) + 1
        <5>1. FileSearchInfo.valid BY <3>4, <4>1 DEF AtPlace
        <5>2. NoName \in Pending BY <1>2, <5>1
        <5> SUFFICES ASSUME indexPtr # Len(heard.all) + 1 PROVE FALSE
          OBVIOUS
        <5>3. indexPtr \in 1 .. Len(heard.all) BY <1>1, <3>4 DEF AtPlace, Heard
        <5>4. FileSearchInfo.name = heard.all[indexPtr] /\ heard.all[indexPtr] \in Names
          BY <1>1, <3>4, <5>3 DEF AtPlace, Heard
        <5>5. FileSearchInfo.name # NoName /\ FileSearchInfo.name # Anything
          BY <5>4, ListingAssumption
        <5> QED BY <5>2, <5>5 DEF Pending
      <4> QED BY <1>1, <3>2, <3>3, <3>4, <4>1 DEF AtPlace
    <3> QED BY <1>1, <2>2, <3>2, <3>3, <3>4 DEF ListingInv
  <2> QED BY <2>1, <2>2
<1>3. ASSUME FileSearchInfo.valid, NEW name \in Pending \ {NoName},
             NEW S, S = Search(FileSearchMask, PerAnswer - 1),
             Left(S), FileSearchInfo' = S.info, Told(<<name>> \o S.given)
      PROVE  ListingInv'
  <2>0. "valid" \in DOMAIN S.info
    BY <1>3 DEF ListingInv, Search, NewSearch, NotFound, Scan
  <2>1. CASE heard.disturbed BY <1>1, <1>3, <2>0, <2>1 DEF ListingInv, Told
  <2>2. CASE ~heard.disturbed
    <3>1. /\ heard.dir \in Dirs /\ FileSearchMask = heard.dir /\ heard.all # <<>> /\ AtPlace
      BY <1>1, <1>3, <2>2 DEF ListingInv, Heard
    <3>2. PICK all \in Seq(Names), at \in Nat, dir \in Dirs :
            all = heard.all /\ at = indexPtr /\ dir = heard.dir
      BY <1>1, <3>1 DEF Heard, AtPlace
    <3>3. at \in 1 .. Len(all) /\ FileSearchInfo.name = all[at] /\ all[at] \in Names
      <4>1. FileSearchInfo.name # NoName
        BY <1>3, ListingAssumption DEF Pending
      <4>2. at \in 1 .. Len(all) + 1 /\ at # Len(all) + 1 /\ FileSearchInfo.name = all[at]
        BY <3>1, <3>2, <4>1 DEF AtPlace
      <4> QED BY <4>2
    <3>4. name = all[at]
      BY <1>3, <3>3, ListingAssumption DEF Pending
    <3>5. S = Scan(dir, all, at + 1, PerAnswer - 1)
      <4>1. lastmask = dir /\ dirList = all /\ ~(indexPtr > Len(dirList)) /\ dirList # NoList
        BY <3>1, <3>2, <3>3 DEF AtPlace, NoList
      <4> QED BY <1>3, <3>1, <3>2, <4>1 DEF Search
    <3>6. PerAnswer - 1 \in Nat /\ at + 1 \in 1 .. Len(all) + 1 /\ Len(all) \in Nat
      BY <3>3, ListingAssumption
    <3>7. ScanStops(S, dir, all, at + 1, PerAnswer - 1) BY <3>2, <3>5, <3>6, ScanFacts
    <3>8. PICK p \in at + 1 .. Len(all) + 1 :
            /\ S.mask = dir /\ S.list = all /\ S.place = p
            /\ S.given = SubSeq(all, at + 1, p - 1)
            /\ p = Len(all) + 1 => S.info = [valid |-> TRUE, name |-> NoName]
            /\ p # Len(all) + 1 => S.info = [valid |-> all[p] \in files[dir], name |-> all[p]]
            /\ p = Len(all) + 1 \/ p = at + 1 + (PerAnswer - 1) \/ all[p] \notin files[dir]
      BY <3>7, Zenon DEF ScanStops
    <3>9. heard.given = SubSeq(all, 1, at - 1) BY <3>1, <3>2 DEF AtPlace
    <3>10. PICK given \in Seq(Names) : given = heard.given \o (<<name>> \o S.given)
                                      /\ given = SubSeq(all, 1, p - 1)
      <4>1. /\ SubSeq(all, 1, at - 1) \o (<<all[at]>> \o SubSeq(all, at + 1, p - 1)) = SubSeq(all, 1, p - 1)
            /\ SubSeq(all, 1, p - 1) \in Seq(Names)
        BY <3>2, <3>3, <3>8, PrefixGrows
      <4> QED BY <3>4, <3>8, <3>9, <4>1, Zenon
    <3>11. given = SubSeq(all, 1, p - 1)
      BY <3>10
    <3>12. <<name>> \o S.given # <<>> BY <3>3, <3>6, <3>8
    <3>13. heard' = [heard EXCEPT !.given = given, !.empty = FALSE]
      BY <1>3, <2>2, <3>10, <3>12 DEF Told
    <3>14. /\ heard' \in Heard /\ heard'.dir = dir /\ heard'.given = given
           /\ heard'.all = all /\ heard'.deleted = heard.deleted
           /\ heard'.disturbed = heard.disturbed /\ ~heard'.empty
      BY <1>1, <3>2, <3>10, <3>13 DEF Heard
    <3>15. /\ p = Len(all) + 1 => S.info.valid /\ S.info.name = NoName
           /\ p # Len(all) + 1 => S.info.name = all[p]
      BY <3>8
    <3>16. ASSUME ~heard.deleted
           PROVE  S.info.valid /\ \A i \in 1 .. Len(all) : all[i] \in files[dir]
      <4>1. \A i \in 1 .. Len(all) : all[i] \in files[dir]
        BY <3>1, <3>2, <3>16 DEF AtPlace
      <4>2. CASE p = Len(all) + 1
        <5>1. S.info.valid BY <3>15, <4>2
        <5> QED BY <4>1, <5>1
      <4>3. CASE p # Len(all) + 1
        <5>1. p \in 1 .. Len(all) BY <3>6, <3>8, <4>3, PlaceInList
        <5>2. (all[p] \in files[dir]) = TRUE BY <4>1, <5>1, Zenon
        <5>3. S.info = [valid |-> TRUE, name |-> all[p]] BY <3>8, <4>3, <5>2, Zenon
        <5> QED BY <4>1, <5>3
      <4> QED BY <4>2, <4>3
    <3>17. AtPlace'
      <4>1. lastmask' = dir /\ dirList' = all /\ indexPtr' = p BY <1>3, <3>8 DEF Left
      <4>2. p \in 1 .. Len(all) + 1 BY <3>3, <3>6, <3>8
      <4> QED BY <1>1, <1>3, <3>11, <3>14, <3>15, <3>16, <4>1, <4>2 DEF AtPlace
    <3>18. dir # NoMask /\ FileSearchMask' = dir /\ all # <<>>
      BY <1>1, <3>1, <3>2, ListingAssumption
    <3> QED BY <1>1, <1>3, <2>0, <3>14, <3>17, <3>18 DEF ListingInv
  <2> QED BY <2>1, <2>2
<1> QED BY <1>2, <1>3 DEF processCDL

LEMMA DeletedStep ==
  ASSUME ListingInv, NEW dir \in Dirs, NEW name, Deleted(dir, name),
         UNCHANGED <<findVars, FileSearchMask, FileSearchInfo>>
  PROVE  ListingInv'
<1>1. /\ files \in [Dirs -> SUBSET Names] /\ heard \in Heard
      /\ files' = [files EXCEPT ![dir] = @ \ {name}]
      /\ heard' = [heard EXCEPT !.deleted = @ \/ (dir = heard.dir /\ name \in files[dir])]
  BY DEF ListingInv, Deleted
<1>2. files' \in [Dirs -> SUBSET Names] BY <1>1
<1>3. /\ heard'.dir = heard.dir /\ heard'.given = heard.given /\ heard'.all = heard.all
      /\ heard'.empty = heard.empty /\ heard'.disturbed = heard.disturbed
      /\ heard' \in Heard
  BY <1>1 DEF Heard
<1>4. heard'.deleted = (heard.deleted \/ (dir = heard.dir /\ name \in files[dir]))
  BY <1>1, Zenon DEF Heard
<1>5. ~heard'.deleted => ~heard.deleted /\ (dir = heard.dir => name \notin files[dir])
  BY <1>4
<1>6. ~heard'.deleted => files'[heard.dir] = files[heard.dir]
  BY <1>1, <1>5
<1>7. AtPlace => AtPlace' BY <1>3, <1>5, <1>6 DEF AtPlace, findVars
<1> QED BY <1>2, <1>3, <1>7 DEF ListingInv

LEMMA LoggedStep ==
  ASSUME ListingInv, NEW dir \in Dirs, NEW name \in Names, Logged(dir, name)
  PROVE  ListingInv'
<1>1. /\ files \in [Dirs -> SUBSET Names]
      /\ files' = [files EXCEPT ![dir] = @ \cup {name}]
  BY DEF ListingInv, Logged
<1>2. files' \in [Dirs -> SUBSET Names] BY <1>1
<1>3. \A d, n : n \in files[d] /\ d \in Dirs => n \in files'[d] BY <1>1
<1>4. heard.dir \in Dirs => (AtPlace => AtPlace') BY <1>3 DEF AtPlace, findVars, Logged
<1> QED BY <1>2, <1>4 DEF ListingInv, Logged, findVars, Heard

LEMMA ListFolderStep ==
  ASSUME ListingInv, NEW b, NEW path, list_folder(b, path)
  PROVE  ListingInv'
<1>1. CASE UNCHANGED listingVars BY <1>1, SameListing
<1>2. CASE /\ FileSearchInfo' = [FileSearchInfo EXCEPT !.name = Anything]
           /\ heard' = [heard EXCEPT !.disturbed = TRUE]
           /\ files' = files
  <2>1. "valid" \in DOMAIN FileSearchInfo' BY <1>2 DEF ListingInv
  <2>2. heard' \in Heard /\ heard'.disturbed BY <1>2 DEF ListingInv, Heard
  <2> QED BY <1>2, <2>1, <2>2 DEF ListingInv
<1> QED BY <1>1, <1>2 DEF list_folder, listingVars, findVars

LEMMA NotAskedListing ==
  /\ NotAsked \in Heard
  /\ "valid" \in DOMAIN NothingFound /\ ~NothingFound.valid
  /\ NotAsked.dir = NoMask
  BY DEF NotAsked, Heard, NothingFound

LEMMA ListingInvImplies == ListingInv => ListingWhole
<1> SUFFICES ASSUME ListingInv, heard.dir # NoMask, ~heard.disturbed
             PROVE  /\ IsPrefix(heard.given, heard.all)
                    /\ heard.empty /\ ~heard.deleted => heard.given = heard.all
  BY DEF ListingWhole
<1>1. PICK all \in Seq(Names), given \in Seq(Names) : all = heard.all /\ given = heard.given
  BY DEF ListingInv, Heard
<1>2. CASE all = <<>>
  <2>1. given = <<>> BY <1>1, <1>2 DEF ListingInv
  <2> QED BY <1>1, <1>2, <2>1 DEF IsPrefix
<1>3. CASE all # <<>>
  <2>1. AtPlace BY <1>1, <1>3 DEF ListingInv
  <2>2. PICK at \in 1 .. Len(all) + 1 : at = indexPtr BY <1>1, <2>1 DEF AtPlace
  <2>3. given = SubSeq(all, 1, at - 1) BY <1>1, <2>1, <2>2 DEF AtPlace
  <2>4. IsPrefix(given, all) BY <2>3 DEF IsPrefix
  <2>5. heard.empty /\ ~heard.deleted => at = Len(all) + 1 BY <1>1, <2>1, <2>2 DEF AtPlace
  <2>6. at = Len(all) + 1 => given = all BY <2>3
  <2> QED BY <1>1, <2>4, <2>5, <2>6
<1> QED BY <1>2, <1>3
LEMMA ProcessKeepsListing == scene \in Scenes /\ ListingInv /\ [Next]_vars => ListingInv'
<1> SUFFICES ASSUME ListingInv, [Next]_vars PROVE ListingInv'
  OBVIOUS
<1>1. CASE UNCHANGED listingVars BY <1>1, SameListing
<1>2. CASE ListingRestarted
  <2>1. FileSearchInfo' = NothingFound /\ heard' = NotAsked /\ files' = files
    BY <1>2 DEF ListingRestarted
  <2> QED BY <2>1, NotAskedListing DEF ListingInv
<1>3. ASSUME NEW b, ListDirectories(b) PROVE ListingInv'
  BY <1>3, GdlStep, CdlStep, ListFolderStep DEF ListDirectories
<1>4. ASSUME NEW b, ChangeFiles(b) PROVE ListingInv'
  <2>1. ASSUME NEW dir \in Dirs, NEW name \in Names, delete_file(b, dir, name)
        PROVE  ListingInv'
    <3>1. CASE UNCHANGED <<files, heard>>
      BY <2>1, <3>1, SameListing DEF delete_file, listingVars, findVars
    <3>2. CASE Deleted(dir, name) BY <2>1, <3>2, DeletedStep DEF delete_file
    <3> QED BY <2>1, <3>1, <3>2 DEF delete_file
  <2>2. ASSUME NEW dir \in Dirs, NEW name \in Names, processEFC(dir, name)
        PROVE  ListingInv'
    BY <2>2, DeletedStep DEF processEFC
  <2> QED BY <1>4, <2>1, <2>2, LoggedStep DEF ChangeFiles
<1>5. ASSUME NEW n, NEW picture, processBMP(n, picture) PROVE ListingInv'
  BY <1>1, <1>5 DEF processBMP
<1>6. ASSUME NEW b, NEW id, edit_image(b, id) PROVE ListingInv'
  BY <1>1, <1>6 DEF edit_image
<1>7. ASSUME NEW b, NEW p, on_editor_mousemove(b, p) PROVE ListingInv'
  BY <1>1, <1>7 DEF on_editor_mousemove
<1>8. ASSUME NEW b, save_bitmap(b) \/ GiveUp(b) \/ load_from_library(b) PROVE ListingInv'
  BY <1>1, <1>8 DEF save_bitmap, GiveUp, load_from_library
<1>9. ASSUME NEW c, Reconfigured(c) PROVE ListingInv'
  BY <1>1, <1>9 DEF Reconfigured
<1>10. ASSUME NEW b, NEW i, select_library_image(b, i) PROVE ListingInv'
  BY <1>1, <1>10 DEF select_library_image
<1>11. ASSUME NEW b, NEW uploaded, upload(b, uploaded) PROVE ListingInv'
  BY <1>1, <1>11 DEF upload
<1>12. CASE UNCHANGED vars BY <1>1, <1>12 DEF vars
<1> QED BY <1>1, <1>2, <1>3, <1>4, <1>5, <1>6, <1>7, <1>8, <1>9, <1>10, <1>11, <1>12
        DEF Next, Process

\* ListingWhole, for every directory, order and size of an answer: the host is
\* told each name once and in order, however many answers it takes.
THEOREM ListingWholeHolds == Spec => []ListingWhole
<1>1. Init => scene \in Scenes /\ ListingInv
  <2> SUFFICES ASSUME Init PROVE scene \in Scenes /\ ListingInv
    OBVIOUS
  <2>1. FileSearchInfo = NothingFound /\ heard = NotAsked BY DEF Init, ListingInit
  <2>2. scene \in Scenes /\ files \in [Dirs -> SUBSET Names] BY StoreAssumption DEF Init
  <2> QED BY <2>1, <2>2, NotAskedListing DEF ListingInv
<1>2. scene \in Scenes /\ [Next]_vars => (scene \in Scenes)' BY DEF Next, vars
<1> QED BY <1>1, <1>2, ProcessKeepsListing, ListingInvImplies, PTL DEF Spec

-----------------------------------------------------------------------------
(* Pictures *)

\* Bit b of a byte is bit b % 4 of its high digit, which is written first, or
\* of its low one.
LEMMA DigitOfBit ==
  ASSUME NEW p \in Nat
  PROVE  /\ p \div 8 \in Nat /\ p % 8 \in 0 .. 7 /\ p % 4 \in 0 .. 3
         /\ p = 8 * (p \div 8) + (p % 8)
         /\ p % 8 >= 4 => p % 4 = (p % 8) - 4
         /\ p % 8 < 4  => p % 4 = p % 8
  BY SMT

LEMMA HalfOfDigit ==
  ASSUME NEW q \in Nat
  PROVE  /\ (2 * q) \div 2 = q /\ (2 * q + 1) \div 2 = q
         /\ (2 * q) % 2 = 0 /\ (2 * q + 1) % 2 = 1
  BY SMT

\* What is read back of the digits of one bit.
LEMMA BitReadBack ==
  ASSUME NEW p \in Nat,
         NEW d, d = <<2 * (p \div 8) + (IF p % 8 >= 4 THEN 0 ELSE 1), p % 4>>
  PROVE  8 * (d[1] \div 2) + (IF d[1] % 2 = 0 THEN 4 ELSE 0) + d[2] = p
<1> PICK q \in Nat, r \in 0 .. 7 : q = p \div 8 /\ r = p % 8
  BY DigitOfBit
<1>1. p = 8 * q + r /\ (r >= 4 => p % 4 = r - 4) /\ (r < 4 => p % 4 = r)
  BY DigitOfBit
<1>2. CASE r >= 4
  <2>1. d = <<2 * q, r - 4>> BY <1>1, <1>2
  <2> QED BY <2>1, <1>1, HalfOfDigit
<1>3. CASE r < 4
  <2>1. d = <<2 * q + 1, r>> BY <1>1, <1>3
  <2> QED BY <2>1, <1>1, HalfOfDigit
<1> QED BY <1>2, <1>3

\* The host reads in an answer to GBM the picture that is in the file.
THEOREM HexRoundTrip ==
  ASSUME NEW bits \in SUBSET BitmapS
  PROVE  FromHex(HexToString(bits)) = bits
<1>1. bits \subseteq Nat BY DEF BitmapS, BitmapBytes, MAX_BMP_WIDTH, MAX_BMP_HEIGHT
<1>2. FromHex(HexToString(bits)) =
        {8 * (d[1] \div 2) + (IF d[1] % 2 = 0 THEN 4 ELSE 0) + d[2] : d \in HexToString(bits)}
  BY DEF FromHex
<1>3. ASSUME NEW p \in bits
      PROVE  p \in FromHex(HexToString(bits))
  <2> DEFINE d == <<2 * (p \div 8) + (IF p % 8 >= 4 THEN 0 ELSE 1), p % 4>>
  <2>1. d \in HexToString(bits) BY DEF HexToString
  <2> HIDE DEF d
  <2>2. p = 8 * (d[1] \div 2) + (IF d[1] % 2 = 0 THEN 4 ELSE 0) + d[2]
    BY <1>1, BitReadBack DEF d
  <2> QED BY <1>2, <2>1, <2>2
<1>4. ASSUME NEW n \in FromHex(HexToString(bits))
      PROVE  n \in bits
  <2>1. PICK d \in HexToString(bits) :
          n = 8 * (d[1] \div 2) + (IF d[1] % 2 = 0 THEN 4 ELSE 0) + d[2]
    BY <1>2
  <2>2. PICK p \in bits : d = <<2 * (p \div 8) + (IF p % 8 >= 4 THEN 0 ELSE 1), p % 4>>
    BY DEF HexToString
  <2> QED BY <2>1, <2>2, <1>1, BitReadBack
<1> QED BY <1>3, <1>4

-----------------------------------------------------------------------------
(* StringToHex and the digits of a browser *)

LEMMA DigitOfHexToString ==
  ASSUME NEW bits \in SUBSET Nat, NEW d \in HexToString(bits)
  PROVE  d[1] \in Nat /\ d[2] \in 0 .. 3
<1>1. PICK p \in bits : d = <<2 * (p \div 8) + (IF p % 8 >= 4 THEN 0 ELSE 1), p % 4>>
  BY DEF HexToString
<1>2. PICK q \in Nat, r \in 0 .. 7 : q = p \div 8 /\ r = p % 8
  BY DigitOfBit
<1>3. p % 4 \in 0 .. 3 BY DigitOfBit
<1>4. d[1] = 2 * q + (IF r >= 4 THEN 0 ELSE 1) BY <1>1, <1>2
<1>5. d[2] = p % 4 BY <1>1
<1> QED BY <1>3, <1>4, <1>5

\* A text of two digits for each byte is read from its beginning.
LEMMA StringToHexFromStart ==
  ASSUME NEW n \in Nat \ {0}, NEW digits, \A d \in digits : d[1] \in Nat
  PROVE  StringToHex(2 * n, digits, n) = FromHex(digits)
<1>1. (2 * n - 1) \div 2 = n - 1 BY SMT
<1>2. ASSUME NEW d \in digits
      PROVE  8 * (n - 1 - ((2 * n - 1) \div 2 - d[1] \div 2)) = 8 * (d[1] \div 2)
  <2>1. PICK h \in Nat : h = d[1] \div 2 BY SMT
  <2> QED BY <1>1, <2>1
<1>3. ASSUME NEW d \in digits
      PROVE  8 * (n - 1 - ((2 * n - 1) \div 2 - d[1] \div 2)) + (IF d[1] % 2 = 0 THEN 4 ELSE 0) + d[2]
               = 8 * (d[1] \div 2) + (IF d[1] % 2 = 0 THEN 4 ELSE 0) + d[2]
  BY <1>2
<1> QED BY <1>3, Zenon DEF StringToHex, FromHex

\* What the host sends of a picture is what is written to its file.
THEOREM HostWrites ==
  ASSUME NEW n \in Nat \ {0}, NEW bits \in SUBSET BitmapS
  PROVE  StringToHex(2 * n, HexToString(bits), n) = bits
<1>1. bits \in SUBSET Nat BY DEF BitmapS, BitmapBytes, MAX_BMP_WIDTH, MAX_BMP_HEIGHT
<1>2. \A d \in HexToString(bits) : d[1] \in Nat BY <1>1, DigitOfHexToString
<1>3. StringToHex(2 * n, HexToString(bits), n) = FromHex(HexToString(bits))
  BY <1>2, StringToHexFromStart
<1> QED BY <1>3, HexRoundTrip

-----------------------------------------------------------------------------
(* Pixels *)

Full == [width |-> MAX_BMP_WIDTH, height |-> MAX_BMP_HEIGHT]

LEMMA IndexInBitmap ==
  ASSUME NEW p \in Grid(Full)
  PROVE  IndexOf(p) \in BitmapS
<1>1. PICK x \in 0 .. 59, y \in 0 .. 47 : p = <<x, y>>
  BY DEF Grid, Full, MAX_BMP_WIDTH, MAX_BMP_HEIGHT
<1>2. IndexOf(p) = 60 * y + x BY <1>1 DEF IndexOf, MAX_BMP_WIDTH
<1>3. 60 * y + x \in 0 .. 2879 BY SMT
<1>4. BitmapS = 0 .. 2879
  BY SMT DEF BitmapS, BitmapBytes, MAX_BMP_WIDTH, MAX_BMP_HEIGHT
<1> QED BY <1>2, <1>3, <1>4

\* What a browser saves of a picture is what is written to its file.
THEOREM BrowserWrites ==
  ASSUME NEW pixels \in SUBSET Grid(Full)
  PROVE  StringToHex(2 * BitmapBytes, save_image(pixels), BitmapBytes)
           = {IndexOf(p) : p \in pixels}
<1> PICK bits \in SUBSET BitmapS : bits = {IndexOf(p) : p \in pixels}
  <2> DEFINE B == {IndexOf(p) : p \in pixels}
  <2>1. B \in SUBSET BitmapS BY IndexInBitmap
  <2> QED BY <2>1
<1>1. save_image(pixels) = HexToString(bits)
  BY Zenon DEF save_image, HexToString
<1>2. BitmapBytes \in Nat \ {0} BY SMT DEF BitmapBytes, MAX_BMP_WIDTH, MAX_BMP_HEIGHT
<1> QED BY <1>1, <1>2, HostWrites

-----------------------------------------------------------------------------
(* Base64 *)

LEMMA PlaceInToken ==
  ASSUME NEW p \in Nat
  PROVE  \E k \in Nat, j \in 0 .. 2, b \in 0 .. 7 :
           /\ p = 24 * k + 8 * j + b
           /\ p \div 24 = k /\ p \div 8 = 3 * k + j /\ (p \div 8) % 3 = j /\ p % 8 = b
<1>1. PICK k \in Nat, m \in 0 .. 23 : p = 24 * k + m /\ p \div 24 = k
  BY SMT
<1>2. PICK j \in 0 .. 2, b \in 0 .. 7 : m = 8 * j + b
  BY SMT
<1>3. p \div 8 = 3 * k + j /\ p % 8 = b BY <1>1, <1>2, SMT
<1>4. (3 * k + j) % 3 = j BY SMT
<1> QED BY <1>1, <1>2, <1>3, <1>4

\* What is read back of the character of one bit.
LEMMA CharReadBack ==
  ASSUME NEW p \in Nat,
         NEW t, t = 8 * (2 - ((p \div 8) % 3)) + (p % 8),
         NEW c, c = <<4 * (p \div 24) + 3 - t \div 6, t % 6>>,
         NEW s, s = 6 * (3 - (c[1] % 4)) + c[2]
  PROVE  8 * (3 * (c[1] \div 4) + 2 - s \div 8) + (s % 8) = p
<1> PICK k \in Nat, j \in 0 .. 2, b \in 0 .. 7 :
      /\ p = 24 * k + 8 * j + b
      /\ p \div 24 = k /\ p \div 8 = 3 * k + j /\ (p \div 8) % 3 = j /\ p % 8 = b
  BY PlaceInToken
<1>1. t = 8 * (2 - j) + b OBVIOUS
<1>2. t \in 0 .. 23 BY <1>1
<1>3. PICK u \in 0 .. 3, v \in 0 .. 5 : t = 6 * u + v /\ t \div 6 = u /\ t % 6 = v
  BY <1>2, SMT
<1>4. c = <<4 * k + 3 - u, v>> BY <1>3
<1>5. (4 * k + 3 - u) \div 4 = k /\ (4 * k + 3 - u) % 4 = 3 - u BY SMT
<1>6. s = t BY <1>3, <1>4, <1>5
<1>7. s \div 8 = 2 - j /\ s % 8 = b BY <1>1, <1>6, SMT
<1>8. c[1] \div 4 = k BY <1>4, <1>5
<1> QED BY <1>7, <1>8

\* The host reads in an answer to GCB the picture that is in the file.
THEOREM Base64RoundTrip ==
  ASSUME NEW bits \in SUBSET BitmapS
  PROVE  FromBase64(EncodeBase64(bits)) = bits
<1> DEFINE inToken(p) == 8 * (2 - ((p \div 8) % 3)) + (p % 8)
           ofBit(p) == <<4 * (p \div 24) + 3 - inToken(p) \div 6, inToken(p) % 6>>
           back(c) == 6 * (3 - (c[1] % 4)) + c[2]
           read(c) == 8 * (3 * (c[1] \div 4) + 2 - back(c) \div 8) + (back(c) % 8)
<1>1. bits \subseteq Nat BY DEF BitmapS, BitmapBytes, MAX_BMP_WIDTH, MAX_BMP_HEIGHT
<1>2. EncodeBase64(bits) = {ofBit(p) : p \in bits} BY DEF EncodeBase64
<1>3. FromBase64(EncodeBase64(bits)) = {read(c) : c \in EncodeBase64(bits)} BY DEF FromBase64
<1>4. ASSUME NEW p \in bits
      PROVE  read(ofBit(p)) = p
  <2>1. p \in Nat BY <1>1
  <2> QED BY <2>1, CharReadBack
<1> HIDE DEF ofBit, read
<1>5. {read(c) : c \in {ofBit(p) : p \in bits}} = bits
  BY <1>4
<1> QED BY <1>2, <1>3, <1>5

-----------------------------------------------------------------------------
(* What a browser is shown *)

LEMMA IndexIsInjective ==
  ASSUME NEW w \in 1 .. 60, NEW x \in 0 .. w - 1, NEW y \in Nat
  PROVE  (w * y + x) \div w = y /\ (w * y + x) % w = x
  BY SMT

LEMMA SizeTable ==
  ASSUME NEW c \in Nat
  PROVE  /\ GetDimensions(c) \in [width : 0 .. 60, height : 0 .. 48]
         /\ GetDimensions(c).width # 0 => GetDimensions(c).height # 0
<1>1. CASE c \in 0 .. 10 BY <1>1 DEF GetDimensions
<1>2. CASE c \in 11 .. 21 BY <1>2 DEF GetDimensions
<1>3. CASE c > 21 BY <1>3 DEF GetDimensions
<1> QED BY <1>1, <1>2, <1>3

LEMMA WebGridSize ==
  ASSUME NEW c \in Nat
  PROVE  /\ WebGrid(c).width \in 1 .. 60 /\ WebGrid(c).height \in 1 .. 48
         /\ WebGrid(c) = [width |-> WebGrid(c).width, height |-> WebGrid(c).height]
<1>1. PICK w \in 0 .. 60, h \in 0 .. 48 :
        GetDimensions(c) = [width |-> w, height |-> h] /\ (w # 0 => h # 0)
  BY SizeTable
<1>2. WebGrid(c) = IF w = 0 THEN [width |-> 60, height |-> 48] ELSE [width |-> w, height |-> h]
  BY <1>1 DEF WebGrid, MAX_BMP_WIDTH, MAX_BMP_HEIGHT
<1>3. CASE w = 0 BY <1>2, <1>3
<1>4. CASE w # 0 BY <1>1, <1>2, <1>4
<1> QED BY <1>3, <1>4

\* A browser shows the part of a picture that is within the display.
THEOREM BrowserShows ==
  ASSUME NEW c \in Nat, NEW bits \in SUBSET BitmapS
  PROVE  {IndexOf(p) : p \in get_bitmap_data(c, bits)}
           = {i \in bits : i % MAX_BMP_WIDTH < WebGrid(c).width
                           /\ i \div MAX_BMP_WIDTH < WebGrid(c).height}
<1> USE DEF MAX_BMP_WIDTH
<1> PICK w \in 1 .. 60, h \in 1 .. 48 : WebGrid(c).width = w /\ WebGrid(c).height = h
  BY WebGridSize
<1>1. bits \subseteq Nat BY DEF BitmapS, BitmapBytes, MAX_BMP_HEIGHT
<1>2. ASSUME NEW p \in get_bitmap_data(c, bits)
      PROVE  /\ IndexOf(p) \in bits
             /\ IndexOf(p) % 60 < w /\ IndexOf(p) \div 60 < h
  <2>1. p \in Grid(WebGrid(c)) /\ IndexOf(p) \in bits BY <1>2 DEF get_bitmap_data
  <2>2. PICK x \in 0 .. w - 1, y \in 0 .. h - 1 : p = <<x, y>> BY <2>1 DEF Grid
  <2>3. IndexOf(p) = 60 * y + x BY <2>2 DEF IndexOf
  <2>4. (60 * y + x) \div 60 = y /\ (60 * y + x) % 60 = x BY SMT
  <2> QED BY <2>1, <2>3, <2>4
<1>3. ASSUME NEW i \in bits, i % 60 < w, i \div 60 < h
      PROVE  i \in {IndexOf(p) : p \in get_bitmap_data(c, bits)}
  <2>1. PICK x \in 0 .. 59, y \in Nat : i % 60 = x /\ i \div 60 = y /\ i = 60 * y + x
    BY <1>1, SMT
  <2>2. <<x, y>> \in Grid(WebGrid(c)) BY <1>3, <2>1 DEF Grid
  <2>3. IndexOf(<<x, y>>) = i BY <2>1 DEF IndexOf
  <2>4. <<x, y>> \in get_bitmap_data(c, bits) BY <2>2, <2>3 DEF get_bitmap_data
  <2> QED BY <2>3, <2>4
<1> QED BY <1>2, <1>3

-----------------------------------------------------------------------------
(* What is read of the library *)

\* The digits of a byte are found in their order.
LEMMA DigitOfIndex ==
  ASSUME NEW i \in Nat
  PROVE  <<IF (i \div 4) % 2 = 0 THEN i \div 4 + 1 ELSE i \div 4 - 1, i % 4>>
           = <<2 * (i \div 8) + (IF i % 8 >= 4 THEN 0 ELSE 1), i % 4>>
<1>1. PICK q \in Nat, r \in 0 .. 7 : q = i \div 8 /\ r = i % 8 /\ i = 8 * q + r
  BY DigitOfBit
<1>2. CASE r >= 4
  <2>1. i \div 4 = 2 * q + 1 BY <1>1, <1>2, SMT
  <2>2. (2 * q + 1) % 2 = 1 BY SMT
  <2> QED BY <1>1, <1>2, <2>1, <2>2
<1>3. CASE r < 4
  <2>1. i \div 4 = 2 * q BY <1>1, <1>3, SMT
  <2>2. (2 * q) % 2 = 0 BY SMT
  <2> QED BY <1>1, <1>3, <2>1, <2>2
<1> QED BY <1>2, <1>3

\* A bit is found in the digits just when it is on.
LEMMA BitInDigits ==
  ASSUME NEW bits \in SUBSET Nat, NEW w \in Nat, NEW x \in Nat, NEW y \in Nat
  PROVE  check_bitmap_bit(w, x, y, HexToString(bits)) <=> y * w + x \in bits
<1> DEFINE digit(i) == <<2 * (i \div 8) + (IF i % 8 >= 4 THEN 0 ELSE 1), i % 4>>
           read(d) == 8 * (d[1] \div 2) + (IF d[1] % 2 = 0 THEN 4 ELSE 0) + d[2]
<1> PICK idx \in Nat : idx = y * w + x
  <2>1. y * w + x \in Nat BY SMT
  <2> QED BY <2>1
<1>1. check_bitmap_bit(w, x, y, HexToString(bits)) <=> digit(idx) \in HexToString(bits)
  BY DigitOfIndex DEF check_bitmap_bit
<1>2. HexToString(bits) = {digit(i) : i \in bits} BY DEF HexToString
<1>3. \A i \in Nat : read(digit(i)) = i BY BitReadBack
<1> HIDE DEF digit, read
<1>4. digit(idx) \in {digit(i) : i \in bits} => idx \in bits
  <2>1. ASSUME NEW i \in bits, digit(idx) = digit(i) PROVE idx = i
    BY <1>3, <2>1
  <2> QED BY <2>1
<1> QED BY <1>1, <1>2, <1>4

LEMMA PlaceInNat ==
  \A w \in 1 .. 60, h \in 1 .. 48 : \A x \in 0 .. w - 1, y \in 0 .. h - 1 :
    w \in Nat /\ x \in Nat /\ y \in Nat
  OBVIOUS

\* A browser shows of an image of the library the pixels it consists of.
THEOREM LibraryImageShown ==
  ASSUME NEW lib, NEW c \in Nat, NEW i \in Nat, NEW junk,
         libraryCheckWidthHeight(lib, c),
         lib.width = WebGrid(c).width,
         i \in 0 .. Len(lib.images) - 1,
         lib.images[i + 1].pixels \in SUBSET Grid(WebGrid(c))
  PROVE  get_library_bitmap_data(lib, c, i, junk) = lib.images[i + 1].pixels
<1> PICK w \in 1 .. 60, h \in 1 .. 48 : WebGrid(c).width = w /\ WebGrid(c).height = h
  BY WebGridSize
<1> DEFINE image == lib.images[i + 1]
           bits  == Stored(lib, image)
<1>1. libraryReadImage(lib, c, i, junk) = [valid |-> TRUE, digits |-> HexToString(bits)]
  BY DEF libraryReadImage
<1>2. \A p \in image.pixels : \E x \in 0 .. w - 1, y \in 0 .. h - 1 : p = <<x, y>>
  BY DEF Grid
<1>3. bits = {w * p[2] + p[1] : p \in image.pixels} BY DEF Stored
<1>4. bits \in SUBSET Nat
  <2>1. ASSUME NEW p \in image.pixels PROVE w * p[2] + p[1] \in Nat
    <3>1. PICK x \in 0 .. w - 1, y \in 0 .. h - 1 : p = <<x, y>> BY <1>2
    <3> QED BY <3>1
  <2> QED BY <1>3, <2>1
<1>5. ASSUME NEW x \in 0 .. w - 1, NEW y \in 0 .. h - 1
      PROVE  y * w + x \in bits <=> <<x, y>> \in image.pixels
  <2>1. y * w + x = w * y + x BY SMT
  <2>2. <<x, y>> \in image.pixels => w * y + x \in bits BY <1>3
  <2>3. ASSUME NEW p \in image.pixels, w * y + x = w * p[2] + p[1]
        PROVE  p = <<x, y>>
    <3>1. PICK x1 \in 0 .. w - 1, y1 \in 0 .. h - 1 : p = <<x1, y1>> BY <1>2
    <3>2. w * y + x = w * y1 + x1 BY <2>3, <3>1
    <3>3. (w * y + x) \div w = y /\ (w * y + x) % w = x BY IndexIsInjective
    <3>4. (w * y1 + x1) \div w = y1 /\ (w * y1 + x1) % w = x1 BY IndexIsInjective
    <3> QED BY <3>1, <3>2, <3>3, <3>4
  <2> QED BY <1>3, <2>1, <2>2, <2>3
<1> HIDE DEF bits, image
<1>6. get_library_bitmap_data(lib, c, i, junk)
        = {p \in Grid(WebGrid(c)) : check_bitmap_bit(w, p[1], p[2], HexToString(bits))}
  BY <1>1 DEF get_library_bitmap_data
<1>7. ASSUME NEW x \in 0 .. w - 1, NEW y \in 0 .. h - 1
      PROVE  check_bitmap_bit(w, x, y, HexToString(bits)) <=> <<x, y>> \in image.pixels
  <2>1. w \in Nat /\ x \in Nat /\ y \in Nat BY PlaceInNat, Zenon
  <2>2. check_bitmap_bit(w, x, y, HexToString(bits)) <=> y * w + x \in bits
    BY <1>4, <2>1, BitInDigits
  <2>3. y * w + x \in bits <=> <<x, y>> \in image.pixels BY <1>5
  <2> QED BY <2>2, <2>3, Zenon
<1>8. \A p \in Grid(WebGrid(c)) : \E x \in 0 .. w - 1, y \in 0 .. h - 1 : p = <<x, y>>
  BY DEF Grid
<1>9. image.pixels \subseteq Grid(WebGrid(c)) BY DEF image
<1>10. ASSUME NEW p \in Grid(WebGrid(c))
      PROVE  check_bitmap_bit(w, p[1], p[2], HexToString(bits)) <=> p \in image.pixels
  <2>1. PICK x \in 0 .. w - 1, y \in 0 .. h - 1 : p = <<x, y>> BY <1>8
  <2> QED BY <1>7, <2>1
<1>11. {p \in Grid(WebGrid(c)) : check_bitmap_bit(w, p[1], p[2], HexToString(bits))} = image.pixels
  BY <1>9, <1>10
<1> QED BY <1>6, <1>11 DEF image

-----------------------------------------------------------------------------
(* The lists of the library *)

\* A set of numbers with 0 and the successors up to n of its members has n.
LEMMA UpTo ==
  ASSUME NEW n \in Nat, NEW S, 0 \in S, \A i \in 0 .. n : i \in S /\ i < n => i + 1 \in S
  PROVE  \A i \in 0 .. n : i \in S
<1> DEFINE missing == {i \in 0 .. n : i \notin S}
<1> SUFFICES ASSUME missing # {} PROVE FALSE OBVIOUS
<1>1. missing \in SUBSET Nat OBVIOUS
<1> PICK x \in Nat : x = Min(missing) BY <1>1, MinOfPlaces
<1>2. x \in missing /\ \A y \in missing : x <= y BY <1>1, MinOfPlaces
<1>3. x - 1 \in 0 .. n /\ x - 1 < n /\ x - 1 + 1 = x BY <1>2
<1>4. x - 1 \notin missing BY <1>1, <1>2, <1>3
<1> QED BY <1>2, <1>3, <1>4

\* Of a part without empty names strtok finds every name.
LEMMA AllTokens ==
  ASSUME NEW S, NEW names \in Seq(S), \A i \in 1 .. Len(names) : names[i] # Unnamed
  PROVE  Tokens(names) = names
<1> DEFINE n == Len(names)
<1>1. n \in Nat OBVIOUS
<1>2. ASSUME NEW k \in 1 .. n
      PROVE  Append(SubSeq(names, 1, k - 1), names[k]) = SubSeq(names, 1, k)
  <2>1. SubSeq(names, 1, k) = SubSeq(names, 1, k - 1) \o <<names[k]>>
    BY SubSeqRecursiveSecond
  <2>2. names[k] \in S BY ElementOfSeq
  <2>3. k - 1 \in Int /\ \A i \in 1 .. k - 1 : names[i] \in S BY ElementOfSeq
  <2>4. SubSeq(names, 1, k - 1) \in Seq(S) BY <2>3, SubSeqProperties
  <2> QED BY <2>1, <2>2, <2>4, AppendIsConcat
<1>3. SubSeq(names, 1, 0) = <<>> BY SubSeqEmpty
<1>4. SubSeq(names, 1, n) = names BY SubSeqFull
<1>5. \A k \in 1 .. n : names[k] # Unnamed OBVIOUS
<1> DEFINE first == [k \in 0 .. n |-> SubSeq(names, 1, k)]
           next(before, k) == IF names[k] = Unnamed THEN before ELSE Append(before, names[k])
           Is(f) == f = [k \in 0 .. n |-> IF k = 0 THEN <<>> ELSE next(f[k - 1], k)]
           upTo == CHOOSE f : Is(f)
<1>6. Tokens(names) = upTo[n] BY DEF Tokens
<1> HIDE DEF n
<1>7. first[0] = <<>> /\ first[n] = names BY <1>1, <1>3, <1>4
<1>8. ASSUME NEW k \in 1 .. n PROVE next(first[k - 1], k) = first[k]
  <2>1. k - 1 \in 0 .. n /\ k \in 0 .. n BY <1>1
  <2>2. first[k - 1] = SubSeq(names, 1, k - 1) /\ first[k] = SubSeq(names, 1, k) BY <2>1
  <2> HIDE DEF first
  <2> QED BY <1>2, <1>5, <2>2
<1>9. first = [k \in 0 .. n |-> first[k]] OBVIOUS
<1> HIDE DEF next, first
<1>10. Is(first)
  <2>1. \A k \in 0 .. n : first[k] = IF k = 0 THEN <<>> ELSE next(first[k - 1], k)
    BY <1>1, <1>7, <1>8
  <2> QED BY <1>9, <2>1
<1>11. Is(upTo) BY <1>10
<1> HIDE DEF upTo
<1>12. \A k \in 0 .. n : upTo[k] = IF k = 0 THEN <<>> ELSE next(upTo[k - 1], k) BY <1>11
<1> HIDE DEF Is
<1> DEFINE P == {k \in 0 .. n : upTo[k] = first[k]}
<1>13. 0 \in P BY <1>1, <1>7, <1>12
<1>14. ASSUME NEW k \in 0 .. n, k \in P, k < n PROVE k + 1 \in P
  <2>1. k + 1 \in 1 .. n /\ k + 1 \in 0 .. n /\ k + 1 - 1 = k /\ k + 1 # 0 BY <1>1, <1>14
  <2>2. upTo[k + 1] = next(upTo[k], k + 1) BY <1>12, <2>1
  <2>3. next(first[k], k + 1) = first[k + 1] BY <1>8, <2>1
  <2> QED BY <1>14, <2>1, <2>2, <2>3
<1>15. n \in P
  <2> HIDE DEF P
  <2>1. \A k \in 0 .. n : k \in P BY <1>1, <1>13, <1>14, UpTo
  <2> QED BY <1>1, <2>1
<1> QED BY <1>6, <1>7, <1>15

LEMMA MinOfTwo ==
  ASSUME NEW m \in Nat, NEW n \in Nat
  PROVE  Min({m, n}) = IF m <= n THEN m ELSE n
<1>1. {m, n} \in SUBSET Nat /\ {m, n} # {} OBVIOUS
<1>2. Min({m, n}) \in {m, n} /\ \A y \in {m, n} : Min({m, n}) <= y BY <1>1, MinOfPlaces
<1> QED BY <1>2

Named(entries) == \A i \in DOMAIN entries : entries[i].name \in STRING \ {Unnamed}

\* The names of a library's images or sequences, all of them and from one to
\* another.
LEMMA NamesFacts ==
  ASSUME NEW S, NEW entries \in Seq(S), Named(entries)
  PROVE  /\ NamesOf(entries) \in Seq(STRING)
         /\ Len(NamesOf(entries)) = Len(entries)
         /\ \A i \in 1 .. Len(entries) : NamesOf(entries)[i] = entries[i].name
         /\ \A i \in 1 .. Len(entries) : NamesOf(entries)[i] # Unnamed
<1>1. Len(entries) \in Nat /\ DOMAIN entries = 1 .. Len(entries) OBVIOUS
<1>2. NamesOf(entries) = [i \in 1 .. Len(entries) |-> entries[i].name]
  BY <1>1 DEF NamesOf
<1>3. \A i \in 1 .. Len(entries) : entries[i].name \in STRING \ {Unnamed}
  BY <1>1 DEF Named
<1> QED BY <1>1, <1>2, <1>3

\* A part is the names from startIdx on up to another place.
LEMMA PageFacts ==
  ASSUME NEW S, NEW entries \in Seq(S), Named(entries), NEW c \in 0 .. Len(entries)
  PROVE  \E m \in c .. Len(entries) :
           /\ c < Len(entries) => c < m
           /\ Page(entries, c) = SubSeq(NamesOf(entries), c + 1, m)
           /\ Page(entries, c) \in Seq(STRING)
           /\ Len(Page(entries, c)) = m - c
           /\ \A i \in 1 .. m - c : Page(entries, c)[i] = entries[c + i].name
<1> PICK m : m = Min({c + PageSize, Len(entries)}) OBVIOUS
<1>1. m \in c .. Len(entries) /\ (c < Len(entries) => c < m)
  BY MinOfTwo, PageAssumption
<1>2. Page(entries, c) = SubSeq(NamesOf(entries), c + 1, m) BY DEF Page
<1>3. \A i \in c + 1 .. m : NamesOf(entries)[i] = entries[i].name /\ NamesOf(entries)[i] \in STRING
  BY <1>1, NamesFacts, ElementOfSeq
<1>4. /\ SubSeq(NamesOf(entries), c + 1, m) \in Seq(STRING)
      /\ Len(SubSeq(NamesOf(entries), c + 1, m)) = IF c + 1 <= m THEN m - (c + 1) + 1 ELSE 0
      /\ \A i \in 1 .. m - (c + 1) + 1 :
           SubSeq(NamesOf(entries), c + 1, m)[i] = NamesOf(entries)[c + 1 + i - 1]
  <2>1. c + 1 \in Int /\ m \in Int BY <1>1
  <2>2. \A i \in c + 1 .. m : NamesOf(entries)[i] \in STRING BY <1>3
  <2>3. SubSeq(NamesOf(entries), c + 1, m) \in Seq(STRING) BY <2>1, <2>2, SubSeqProperties
  <2>4. Len(SubSeq(NamesOf(entries), c + 1, m)) = IF c + 1 <= m THEN m - (c + 1) + 1 ELSE 0
    BY <2>1, <2>2, SubSeqProperties
  <2>5. \A i \in 1 .. m - (c + 1) + 1 :
           SubSeq(NamesOf(entries), c + 1, m)[i] = NamesOf(entries)[c + 1 + i - 1]
    BY <2>1, <2>2, SubSeqProperties
  <2> QED BY <2>3, <2>4, <2>5
<1>5. Len(Page(entries, c)) = m - c BY <1>1, <1>2, <1>4
<1>6. ASSUME NEW i \in 1 .. m - c
      PROVE  Page(entries, c)[i] = entries[c + i].name
  <2>1. c + 1 + i - 1 = c + i /\ c + i \in c + 1 .. m /\ i \in 1 .. m - (c + 1) + 1 BY <1>1
  <2> QED BY <1>2, <1>3, <1>4, <2>1
<1> QED BY <1>1, <1>2, <1>4, <1>5, <1>6

\* Part after part gives every name, however many fit into one.
LEMMA AllPages ==
  ASSUME NEW S, NEW entries \in Seq(S), Named(entries),
         NEW page, page = [c \in 0 .. Len(entries) - 1 |-> Page(entries, c)]
  PROVE  AllNames(Len(entries), page) = NamesOf(entries)
<1> DEFINE total == Len(entries)
           names == NamesOf(entries)
           rest == [c \in 0 .. total |-> SubSeq(names, c + 1, total)]
           next(c) == Min({c + Len(Tokens(page[c])), total})
           T(c) == Tokens(page[c])
           Is(f) == f = [c \in 0 .. total |->
                           IF c = total \/ T(c) = <<>> THEN <<>> ELSE T(c) \o f[next(c)]]
           from == CHOOSE f : Is(f)
<1>1. total \in Nat /\ names \in Seq(STRING) /\ Len(names) = total BY NamesFacts
<1>2. AllNames(total, page) = from[0] BY DEF AllNames
<1>3. rest[0] = names /\ rest[total] = <<>>
  <2>1. SubSeq(names, total + 1, total) = <<>> BY <1>1, SubSeqEmpty
  <2>2. SubSeq(names, 1, total) = names BY <1>1, SubSeqFull
  <2> HIDE DEF total, names
  <2> QED BY <1>1, <2>1, <2>2
<1>4. ASSUME NEW c \in 0 .. total - 1
      PROVE  /\ next(c) \in c + 1 .. total
             /\ T(c) # <<>> /\ rest[c] = T(c) \o rest[next(c)]
  <2>1. c \in 0 .. Len(entries) /\ c < Len(entries) /\ page[c] = Page(entries, c) BY <1>1
  <2>2. \E m \in c .. Len(entries) :
          /\ c < Len(entries) => c < m
          /\ Page(entries, c) = SubSeq(NamesOf(entries), c + 1, m)
          /\ Page(entries, c) \in Seq(STRING)
          /\ Len(Page(entries, c)) = m - c
          /\ \A i \in 1 .. m - c : Page(entries, c)[i] = entries[c + i].name
    BY <2>1, PageFacts, Zenon
  <2> PICK m \in c .. Len(entries) :
          /\ c < Len(entries) => c < m
          /\ Page(entries, c) = SubSeq(NamesOf(entries), c + 1, m)
          /\ Page(entries, c) \in Seq(STRING)
          /\ Len(Page(entries, c)) = m - c
          /\ \A i \in 1 .. m - c : Page(entries, c)[i] = entries[c + i].name
    BY <2>2, Zenon
  <2> DEFINE part == Page(entries, c)
  <2>3. /\ m \in c + 1 .. total
        /\ part \in Seq(STRING) /\ part = SubSeq(names, c + 1, m)
        /\ Len(part) = m - c
        /\ \A i \in 1 .. m - c : part[i] = entries[c + i].name
    <3>1. m \in c + 1 .. total BY <1>1, <2>1
    <3> QED BY <3>1, Zenon
  <2>4. \A i \in 1 .. m - c : entries[c + i].name # Unnamed
    <3>1. DOMAIN entries = 1 .. total /\ \A i \in 1 .. m - c : c + i \in 1 .. total BY <1>1
    <3> QED BY <3>1 DEF Named
  <2>5. T(c) = part BY <2>1, <2>3, <2>4, AllTokens
  <2> HIDE DEF total, names
  <2>6. next(c) = m
    <3>1. c + (m - c) = m /\ m \in Nat /\ m <= total
      <4>1. total \in Nat /\ c \in 0 .. total - 1 /\ m \in c + 1 .. total BY <1>1, <2>3
      <4> QED BY <4>1
    <3>2. Min({m, total}) = m BY <1>1, <3>1, MinOfTwo
    <3> QED BY <2>3, <2>5, <3>1, <3>2
  <2> HIDE DEF T, next
  <2>7. SubSeq(names, c + 1, m) \o SubSeq(names, m + 1, total) = SubSeq(names, c + 1, total)
    <3>1. c + 1 \in 1 .. Len(names) + 1 /\ m \in (c + 1) - 1 .. Len(names) /\ total \in m .. Len(names)
      BY <1>1, <2>3
    <3> QED BY <1>1, <3>1, ConcatAdjacentSubSeq
  <2> HIDE DEF part
  <2>8. part # <<>>
    <3>1. Len(part) # 0 BY <1>1, <2>3
    <3> QED BY <3>1
  <2>9. rest[c] = SubSeq(names, c + 1, total) /\ rest[m] = SubSeq(names, m + 1, total)
    <3>1. c \in 0 .. total /\ m \in 0 .. total BY <1>1, <2>3
    <3> QED BY <3>1
  <2> QED BY <2>3, <2>5, <2>6, <2>7, <2>8, <2>9
<1>5. rest = [c \in 0 .. total |-> rest[c]] OBVIOUS
<1> HIDE DEF total, names, rest, next, T
<1>6. Is(rest)
  <2>1. \A c \in 0 .. total : c = total \/ c \in 0 .. total - 1 BY <1>1
  <2>2. \A c \in 0 .. total - 1 : c # total BY <1>1
  <2>3. \A c \in 0 .. total :
          rest[c] = IF c = total \/ T(c) = <<>> THEN <<>> ELSE T(c) \o rest[next(c)]
    BY <1>3, <1>4, <2>1, <2>2, Zenon
  <2> QED BY <1>5, <2>3
<1>7. Is(from) BY <1>6
<1> HIDE DEF from
<1>8. \A c \in 0 .. total :
        from[c] = IF c = total \/ T(c) = <<>> THEN <<>> ELSE T(c) \o from[next(c)]
  BY <1>7
<1> HIDE DEF Is
<1> DEFINE wrong == {k \in 0 .. total : from[total - k] # rest[total - k]}
<1>9. wrong = {}
  <2> SUFFICES ASSUME wrong # {} PROVE FALSE OBVIOUS
  <2>1. wrong \in SUBSET Nat OBVIOUS
  <2> PICK x \in Nat : x = Min(wrong) BY <2>1, MinOfPlaces
  <2>2. x \in wrong /\ \A y \in wrong : x <= y BY <2>1, MinOfPlaces
  <2>3. x \in 0 .. total /\ from[total - x] # rest[total - x] BY <2>2
  <2>4. total - x \in 0 .. total BY <1>1, <2>3
  <2> PICK c \in 0 .. total : c = total - x /\ from[c] # rest[c] BY <2>3, <2>4
  <2>5. c \in 0 .. total - 1 /\ c # total BY <1>1, <1>3, <1>8
  <2> PICK n \in c + 1 .. total : n = next(c) BY <1>4, <2>5
  <2>6. from[c] = T(c) \o from[n] /\ rest[c] = T(c) \o rest[n] BY <1>4, <1>8, <2>5
  <2>7. total - n < x /\ total - n \in 0 .. total /\ total - (total - n) = n BY <1>1, <2>3
  <2>8. total - n \notin wrong
    <3> HIDE DEF wrong
    <3>1. ~(x <= total - n) BY <1>1, <2>7
    <3> QED BY <2>2, <3>1
  <2>9. from[n] = rest[n] BY <2>7, <2>8
  <2> QED BY <2>6, <2>9
<1>10. from[0] = rest[0]
  <2>1. total \in 0 .. total /\ total - total = 0 BY <1>1
  <2> QED BY <1>9, <2>1
<1> QED BY <1>2, <1>3, <1>10 DEF total, names

-----------------------------------------------------------------------------
(* What the library's lists name *)

\* Of no names there are no parts.
LEMMA NoPages ==
  ASSUME NEW page
  PROVE  AllNames(0, page) = <<>>
<1> DEFINE T(c) == Tokens(page[c])
           next(c) == Min({c + Len(Tokens(page[c])), 0})
           Is(f) == f = [c \in 0 .. 0 |->
                           IF c = 0 \/ T(c) = <<>> THEN <<>> ELSE T(c) \o f[next(c)]]
           from == CHOOSE f : Is(f)
           none == [c \in 0 .. 0 |-> <<>>]
<1>1. AllNames(0, page) = from[0] BY DEF AllNames
<1> HIDE DEF T, next
<1>2. none = [c \in 0 .. 0 |-> none[c]] /\ \A c \in 0 .. 0 : c = 0 /\ none[c] = <<>> OBVIOUS
<1> HIDE DEF none
<1>3. Is(none) BY <1>2
<1>4. Is(from) BY <1>3
<1> HIDE DEF from
<1>5. from[0] = <<>> BY <1>4
<1> QED BY <1>1, <1>5

WellNamed(lib) == Named(lib.images) /\ Named(lib.sequences)

\* A library that is stored was uploaded, or there is none.
IsLibrary(lib) == lib \in Libraries \cup {NoLibrary}

LibraryInv == panelsConfiguration \in Nat /\ IsLibrary(library)

LEMMA LibraryTypes ==
  ASSUME NEW lib, IsLibrary(lib)
  PROVE  /\ lib.width \in Nat /\ lib.height \in Nat
         /\ lib.images \in Seq(LibraryImages(lib)) /\ lib.sequences \in Seq(LibrarySequences)
<1>1. CASE lib = NoLibrary
  <2>1. lib.width = 0 /\ lib.height = 0 /\ lib.images = <<>> /\ lib.sequences = <<>>
    BY <1>1 DEF NoLibrary
  <2> QED BY <2>1
<1> QED BY <1>1, LibraryAssumption DEF IsLibrary

LEMMA ProcessKeepsLibrary == scene \in Scenes /\ LibraryInv /\ [Next]_vars => LibraryInv'
<1> SUFFICES ASSUME scene \in Scenes, LibraryInv, [Next]_vars PROVE LibraryInv'
  OBVIOUS
<1>1. CASE UNCHANGED pictureVars BY <1>1 DEF pictureVars, LibraryInv, IsLibrary
<1>2. ASSUME NEW n, NEW picture, processBMP(n, picture) PROVE LibraryInv'
  BY <1>2 DEF processBMP, LibraryInv, IsLibrary
<1>3. ASSUME NEW b, NEW id, edit_image(b, id) PROVE LibraryInv'
  BY <1>3 DEF edit_image, LibraryInv, IsLibrary
<1>4. ASSUME NEW b, NEW p, on_editor_mousemove(b, p) PROVE LibraryInv'
  BY <1>4 DEF on_editor_mousemove, LibraryInv, IsLibrary
<1>5. ASSUME NEW b, save_bitmap(b) \/ GiveUp(b) \/ load_from_library(b) PROVE LibraryInv'
  BY <1>5 DEF save_bitmap, GiveUp, load_from_library, LibraryInv, IsLibrary
<1>6. ASSUME NEW c \in Configs, Reconfigured(c) PROVE LibraryInv'
  BY <1>6, StoreAssumption DEF Reconfigured, LibraryInv, IsLibrary
<1>7. ASSUME NEW b, NEW i, select_library_image(b, i) PROVE LibraryInv'
  BY <1>7 DEF select_library_image, LibraryInv, IsLibrary
<1>8. ASSUME NEW b, NEW uploaded \in Libraries, upload(b, uploaded) PROVE LibraryInv'
  BY <1>8 DEF upload, LibraryInv, IsLibrary
<1>9. CASE UNCHANGED vars BY <1>9 DEF vars, pictureVars, LibraryInv, IsLibrary
<1> QED BY <1>1, <1>2, <1>3, <1>4, <1>5, <1>6, <1>7, <1>8, <1>9 DEF Next, Process

\* The k-th name of a part is that of the k-th entry from startIdx on.
LEMMA EnumNames ==
  ASSUME NEW S, NEW entries \in Seq(S), Named(entries), NEW lib, NEW c,
         NEW startIdx \in 0 .. Len(entries),
         NEW k \in DOMAIN EnumEntries(lib, entries, c, startIdx).names
  PROVE  /\ libraryCheckWidthHeight(lib, c)
         /\ k \in Nat \ {0} /\ startIdx + k \in 1 .. Len(entries)
         /\ EnumEntries(lib, entries, c, startIdx).names[k] = entries[startIdx + k].name
<1>1. libraryCheckWidthHeight(lib, c)
  <2> SUFFICES ASSUME ~libraryCheckWidthHeight(lib, c) PROVE FALSE OBVIOUS
  <2>1. EnumEntries(lib, entries, c, startIdx).names = <<>> BY DEF EnumEntries
  <2> QED BY <2>1
<1>2. EnumEntries(lib, entries, c, startIdx).names = Page(entries, startIdx)
  BY <1>1 DEF EnumEntries
<1> PICK m \in startIdx .. Len(entries) :
      /\ startIdx < Len(entries) => startIdx < m
      /\ Page(entries, startIdx) = SubSeq(NamesOf(entries), startIdx + 1, m)
      /\ Page(entries, startIdx) \in Seq(STRING)
      /\ Len(Page(entries, startIdx)) = m - startIdx
      /\ \A i \in 1 .. m - startIdx : Page(entries, startIdx)[i] = entries[startIdx + i].name
  BY PageFacts, Zenon
<1>3. DOMAIN Page(entries, startIdx) = 1 .. m - startIdx OBVIOUS
<1>4. k \in 1 .. m - startIdx BY <1>2, <1>3
<1>5. k \in Nat \ {0} /\ startIdx + k \in 1 .. Len(entries)
  <2>1. startIdx \in Nat /\ m \in Nat /\ m <= Len(entries) /\ Len(entries) \in Nat OBVIOUS
  <2> QED BY <1>4, <2>1
<1> QED BY <1>1, <1>2, <1>4, <1>5

\* A browser's list is the whole one, if the library is one for the display,
\* and nothing if it is not.
LEMMA WholeLists ==
  ASSUME NEW lib, NEW c,
         NEW S, lib.images \in Seq(S), Named(lib.images),
         NEW T, lib.sequences \in Seq(T), Named(lib.sequences)
  PROVE  enum_library_contents(lib, c) =
           IF libraryCheckWidthHeight(lib, c)
           THEN [images |-> NamesOf(lib.images), sequences |-> NamesOf(lib.sequences)]
           ELSE [images |-> <<>>, sequences |-> <<>>]
<1> DEFINE image(i) == libraryEnumImages(lib, c, i)
           sequence(i) == libraryEnumSequences(lib, c, i)
           imagePages(n) == [i \in 0 .. n - 1 |-> image(i).names]
           sequencePages(n) == [i \in 0 .. n - 1 |-> sequence(i).names]
<1>1. enum_library_contents(lib, c) =
        [images |-> AllNames(image(0).total, imagePages(image(0).total)),
         sequences |-> AllNames(sequence(0).total, sequencePages(sequence(0).total))]
  BY Zenon DEF enum_library_contents
<1>2. CASE libraryCheckWidthHeight(lib, c)
  <2>1. \A i : /\ image(i) = [total |-> Len(lib.images), names |-> Page(lib.images, i)]
               /\ sequence(i) = [total |-> Len(lib.sequences), names |-> Page(lib.sequences, i)]
    BY <1>2, Zenon DEF libraryEnumImages, libraryEnumSequences, EnumEntries
  <2> HIDE DEF image, sequence
  <2>2. \A i : /\ image(i).total = Len(lib.images) /\ image(i).names = Page(lib.images, i)
               /\ sequence(i).total = Len(lib.sequences)
               /\ sequence(i).names = Page(lib.sequences, i)
    BY <2>1
  <2>3. /\ imagePages(Len(lib.images)) =
             [i \in 0 .. Len(lib.images) - 1 |-> Page(lib.images, i)]
        /\ sequencePages(Len(lib.sequences)) =
             [i \in 0 .. Len(lib.sequences) - 1 |-> Page(lib.sequences, i)]
    BY <2>2
  <2> HIDE DEF imagePages, sequencePages
  <2>4. AllNames(Len(lib.images), imagePages(Len(lib.images))) = NamesOf(lib.images)
    BY <2>3, AllPages
  <2>5. AllNames(Len(lib.sequences), sequencePages(Len(lib.sequences))) = NamesOf(lib.sequences)
    BY <2>3, AllPages
  <2> QED BY <1>1, <1>2, <2>2, <2>4, <2>5, Zenon
<1>3. CASE ~libraryCheckWidthHeight(lib, c)
  <2>1. \A i : image(i) = [total |-> 0, names |-> <<>>] /\ sequence(i) = [total |-> 0, names |-> <<>>]
    BY <1>3, Zenon DEF libraryEnumImages, libraryEnumSequences, EnumEntries
  <2> HIDE DEF image, sequence
  <2>2. image(0).total = 0 /\ sequence(0).total = 0 BY <2>1
  <2>3. \A page : AllNames(0, page) = <<>> BY NoPages
  <2> HIDE DEF imagePages, sequencePages
  <2> QED BY <1>1, <1>3, <2>2, <2>3, Zenon
<1> QED BY <1>2, <1>3

LEMMA LibraryNamed ==
  ASSUME NEW lib, IsLibrary(lib), \A l \in Libraries : WellNamed(l)
  PROVE  WellNamed(lib)
<1>1. CASE lib = NoLibrary
  <2>1. lib.images = <<>> /\ lib.sequences = <<>> BY <1>1 DEF NoLibrary
  <2> QED BY <2>1 DEF WellNamed, Named
<1> QED BY <1>1 DEF IsLibrary

LEMMA LibraryRead ==
  ASSUME LibraryInv, WellNamed(library)
  PROVE  ListedIsRead
<1> DEFINE images == library.images
           sequences == library.sequences
           c == panelsConfiguration
<1>1. images \in Seq(LibraryImages(library)) /\ sequences \in Seq(LibrarySequences)
  BY LibraryTypes DEF LibraryInv
<1>2. Named(images) /\ Named(sequences) BY DEF WellNamed
<1>3. ASSUME NEW startIdx \in 0 .. Len(images), NEW k \in DOMAIN processELI(startIdx).names
      PROVE  \E e \in ToSet(images) :
               /\ e.name = processELI(startIdx).names[k]
               /\ processRLI(startIdx + k - 1, {}).digits = HexToString(Stored(library, e))
  <2>1. processELI(startIdx) = EnumEntries(library, images, c, startIdx)
    BY DEF processELI, libraryEnumImages
  <2>2. /\ libraryCheckWidthHeight(library, c)
        /\ k \in Nat \ {0} /\ startIdx + k \in 1 .. Len(images)
        /\ processELI(startIdx).names[k] = images[startIdx + k].name
    BY <1>1, <1>2, <1>3, <2>1, EnumNames
  <2> PICK j \in 1 .. Len(images) : j = startIdx + k BY <2>2
  <2>3. images[j] \in ToSet(images)
    BY <1>1 DEF ToSet
  <2>4. startIdx + k - 1 \in 0 .. Len(images) - 1 /\ startIdx + k - 1 + 1 = j
    BY <1>1, <2>2
  <2>5. processRLI(startIdx + k - 1, {}).digits = HexToString(Stored(library, images[j]))
    BY <2>2, <2>4 DEF processRLI, libraryReadImage
  <2> QED BY <2>2, <2>3, <2>5
<1>4. ASSUME NEW startIdx \in 0 .. Len(sequences), NEW k \in DOMAIN processELS(startIdx).names
      PROVE  \E e \in ToSet(sequences) :
               /\ e.name = processELS(startIdx).names[k]
               /\ processRLS(startIdx + k - 1) = {<<e.frameDelay, e.frames>>}
  <2>1. processELS(startIdx) = EnumEntries(library, sequences, c, startIdx)
    BY DEF processELS, libraryEnumSequences
  <2>2. /\ libraryCheckWidthHeight(library, c)
        /\ k \in Nat \ {0} /\ startIdx + k \in 1 .. Len(sequences)
        /\ processELS(startIdx).names[k] = sequences[startIdx + k].name
    BY <1>1, <1>2, <1>4, <2>1, EnumNames
  <2> PICK j \in 1 .. Len(sequences) : j = startIdx + k BY <2>2
  <2>3. sequences[j] \in ToSet(sequences)
    BY <1>1 DEF ToSet
  <2>4. startIdx + k - 1 \in 0 .. Len(sequences) - 1 /\ startIdx + k - 1 + 1 = j
    BY <1>1, <2>2
  <2>5. processRLS(startIdx + k - 1) = {<<sequences[j].frameDelay, sequences[j].frames>>}
    BY <2>2, <2>4 DEF processRLS, libraryReadSequence
  <2> QED BY <2>2, <2>3, <2>5
<1>5. ASSUME libraryCheckWidthHeight(library, c)
      PROVE  enum_library_contents(library, c)
               = [images |-> NamesOf(images), sequences |-> NamesOf(sequences)]
  BY <1>1, <1>2, <1>5, WholeLists
<1> QED BY <1>3, <1>4, <1>5 DEF ListedIsRead

\* ListedIsRead, for every library whose images and sequences have names, and
\* every number of names in a part.
THEOREM ListedIsReadHolds ==
  ASSUME \A lib \in Libraries : WellNamed(lib)
  PROVE  Spec => []ListedIsRead
<1>1. Init => scene \in Scenes /\ LibraryInv
  BY StoreAssumption DEF Init, LibraryInv, IsLibrary
<1>2. scene \in Scenes /\ [Next]_vars => (scene \in Scenes)' BY DEF Next, vars
<1>3. LibraryInv => ListedIsRead
  <2> SUFFICES ASSUME LibraryInv PROVE ListedIsRead OBVIOUS
  <2>1. WellNamed(library) BY LibraryNamed DEF LibraryInv
  <2> QED BY <2>1, LibraryRead
<1> QED BY <1>1, <1>2, <1>3, ProcessKeepsLibrary, PTL DEF Spec

-----------------------------------------------------------------------------
(* Pictures as meant *)

Meaning == [bits : SUBSET BitmapS, known : SUBSET BitmapS]
Editors == [id : Ids \cup {None}, size : [width : 0 .. 60, height : 0 .. 48],
            pixels : SUBSET Grid(Full), meant : Meaning]

\* What is in an editor is what its user means, and lies within its grid.
EditorInv(e) ==
  /\ e \in Editors
  /\ e = Closed \/ e.id \in Ids
  /\ e.pixels \subseteq Grid(e.size)
  /\ AsMeant({IndexOf(p) : p \in e.pixels}, e.meant)

\* A list was made of a library, for its display or for another.
ListInv(l) ==
  /\ IsLibrary(l.library)
  /\ l.images \in {<<>>, NamesOf(l.library.images)}

FilesInv ==
  /\ bitmaps \in [Ids -> SUBSET BitmapS] /\ meant \in [Ids -> Meaning]
  /\ \A id \in Ids : AsMeant(bitmaps[id], meant[id])

BrowsersInv ==
  /\ editors = [b \in Browsers |-> editors[b]] /\ listed = [b \in Browsers |-> listed[b]]
  /\ \A b \in Browsers : EditorInv(editors[b]) /\ ListInv(listed[b])

PicturesInv == LibraryInv /\ FilesInv /\ BrowsersInv

LEMMA PicturesShown ==
  ASSUME PicturesInv
  PROVE  PicturesAsMeant
<1>1. ASSUME NEW id \in Ids
      PROVE  LET grid  == WebGrid(panelsConfiguration)
                 shown == {IndexOf(p) : p \in get_bitmap_data(panelsConfiguration, bitmaps[id])}
             IN  /\ AsMeant(FromHex(processGBM(id + 1)), meant[id])
                 /\ AsMeant(FromBase64(processGCB(id + 1)), meant[id])
                 /\ AsMeant(shown, [meant[id] EXCEPT !.bits = Within(grid, @)])
  <2> DEFINE bits == bitmaps[id]
             m == meant[id]
             grid == WebGrid(panelsConfiguration)
             shown == {IndexOf(p) : p \in get_bitmap_data(panelsConfiguration, bits)}
  <2>1. bits \in SUBSET BitmapS /\ m \in Meaning /\ AsMeant(bits, m) /\ panelsConfiguration \in Nat
    BY DEF PicturesInv, LibraryInv, FilesInv
  <2>2. (id + 1) - 1 = id BY StoreAssumption
  <2>3. FromHex(processGBM(id + 1)) = bits
    <3>1. processGBM(id + 1) = HexToString(bits) BY <2>2 DEF processGBM
    <3> QED BY <2>1, <3>1, HexRoundTrip, Zenon
  <2>4. FromBase64(processGCB(id + 1)) = bits
    <3>1. processGCB(id + 1) = EncodeBase64(bits) BY <2>2 DEF processGCB
    <3> QED BY <2>1, <3>1, Base64RoundTrip, Zenon
  <2>5. shown = Within(grid, bits) BY <2>1, BrowserShows DEF Within
  <2>6. AsMeant(Within(grid, bits), [m EXCEPT !.bits = Within(grid, m.bits)])
    <3> PICK mb \in SUBSET BitmapS, mk \in SUBSET BitmapS : m = [bits |-> mb, known |-> mk]
      BY <2>1 DEF Meaning
    <3>1. [m EXCEPT !.bits = Within(grid, m.bits)] = [bits |-> Within(grid, mb), known |-> mk]
      OBVIOUS
    <3>2. bits \cap mk = mb \cap mk BY <2>1 DEF AsMeant
    <3>3. Within(grid, bits) \cap mk = Within(grid, mb) \cap mk BY <3>2 DEF Within
    <3> QED BY <3>1, <3>3 DEF AsMeant
  <2> QED BY <2>1, <2>3, <2>4, <2>5, <2>6
<1>2. \A b \in Browsers : AsMeant({IndexOf(p) : p \in editors[b].pixels}, editors[b].meant)
  BY DEF PicturesInv, BrowsersInv, EditorInv
<1> QED BY <1>1, <1>2 DEF PicturesAsMeant

LEMMA ClosedEditor == EditorInv(Closed) /\ ListInv(NotListed)
<1>1. Closed \in Editors BY DEF Closed, Editors, Meaning
<1>2. Closed.pixels = {} /\ Closed.meant.known = {} BY DEF Closed
<1>3. ListInv(NotListed) BY DEF ListInv, NotListed, NoLibrary, IsLibrary
<1> QED BY <1>1, <1>2, <1>3 DEF EditorInv, AsMeant

LEMMA PicturesStart == Init => PicturesInv
<1> SUFFICES ASSUME Init PROVE PicturesInv OBVIOUS
<1>1. LibraryInv BY StoreAssumption DEF Init, LibraryInv, IsLibrary
<1>2. /\ bitmaps \in [Ids -> SUBSET BitmapS] /\ meant \in [Ids -> Meaning]
      /\ \A id \in Ids : AsMeant(bitmaps[id], meant[id])
  BY DEF Init, Meaning, AsMeant
<1>3. editors = [b \in Browsers |-> Closed] /\ listed = [b \in Browsers |-> NotListed] BY DEF Init
<1> QED BY <1>1, <1>2, <1>3, ClosedEditor DEF PicturesInv, FilesInv, BrowsersInv

\* One file is written, with what is meant by it.
LEMMA WrittenStep ==
  ASSUME FilesInv, NEW id \in Ids, NEW bits \in SUBSET BitmapS, NEW m \in Meaning,
         AsMeant(bits, m),
         bitmaps' = [bitmaps EXCEPT ![id] = bits], meant' = [meant EXCEPT ![id] = m]
  PROVE  FilesInv'
<1>1. bitmaps' \in [Ids -> SUBSET BitmapS] /\ meant' \in [Ids -> Meaning] BY DEF FilesInv
<1>2. ASSUME NEW i \in Ids PROVE AsMeant(bitmaps'[i], meant'[i])
  <2>1. CASE i = id
    <3>1. bitmaps'[i] = bits /\ meant'[i] = m BY <2>1 DEF FilesInv
    <3> QED BY <3>1
  <2>2. CASE i # id
    <3>1. bitmaps'[i] = bitmaps[i] /\ meant'[i] = meant[i] BY <2>2 DEF FilesInv
    <3> QED BY <3>1 DEF FilesInv
  <2> QED BY <2>1, <2>2
<1> QED BY <1>1, <1>2 DEF FilesInv

LEMMA SameFiles == FilesInv /\ UNCHANGED <<bitmaps, meant>> => FilesInv'
  BY DEF FilesInv

LEMMA SameBrowsers == BrowsersInv /\ UNCHANGED <<editors, listed>> => BrowsersInv'
  BY DEF BrowsersInv

LEMMA FirstInBitmap ==
  ASSUME NEW k \in 1 .. BitmapBytes
  PROVE  FirstBytes(k) \subseteq BitmapS
<1>1. BitmapBytes = 360 /\ BitmapS = 0 .. 2879
  BY SMT DEF BitmapS, BitmapBytes, MAX_BMP_WIDTH, MAX_BMP_HEIGHT
<1>2. k \in 1 .. 360 BY <1>1
<1>3. FirstBytes(k) = 0 .. 8 * k - 1 BY DEF FirstBytes
<1> QED BY <1>1, <1>2, <1>3

LEMMA BmpStep ==
  ASSUME FilesInv, NEW id \in Ids \cup {MAX_BITMAPS}, NEW picture \in HostPictures,
         processBMP(id + 1, picture)
  PROVE  FilesInv'
<1> USE DEF MAX_BITMAPS
<1>1. (id + 1) - 1 = id /\ id \in Nat BY StoreAssumption
<1>2. CASE id >= MAX_BITMAPS
  <2>1. UNCHANGED <<bitmaps, meant>> BY <1>1, <1>2 DEF processBMP
  <2> QED BY <2>1, SameFiles
<1>3. CASE ~(id >= MAX_BITMAPS)
  <2> DEFINE first == FirstBytes(picture.length)
             sent  == StringToHex(2 * picture.length, HexToString(picture.bits), picture.length)
  <2>1. id \in Ids BY <1>3
  <2>2. picture.length \in 1 .. BitmapBytes /\ picture.bits \subseteq first
    BY StoreAssumption DEF FirstBytes
  <2>3. BitmapBytes = 360 /\ BitmapS = 0 .. 2879
    BY SMT DEF BitmapS, BitmapBytes, MAX_BMP_WIDTH, MAX_BMP_HEIGHT
  <2>4. first \subseteq BitmapS BY <2>2, FirstInBitmap
  <2>5. sent = picture.bits
    <3>1. picture.length \in Nat \ {0} /\ picture.bits \in SUBSET BitmapS BY <2>2, <2>3, <2>4
    <3> QED BY <3>1, HostWrites
  <2> PICK junk \in Junk : writeBitmap(id, sent \cup (junk \ first))
    BY <1>1, <1>3 DEF processBMP
  <2>6. meant' = [meant EXCEPT ![id] = [bits |-> picture.bits, known |-> first]]
    BY <1>1, <1>3 DEF processBMP
  <2> HIDE DEF first, sent
  <2>7. sent \cup (junk \ first) \in SUBSET BitmapS
    BY <2>2, <2>4, <2>5, StoreAssumption
  <2>8. [bits |-> picture.bits, known |-> first] \in Meaning BY <2>2, <2>4 DEF Meaning
  <2>9. AsMeant(sent \cup (junk \ first), [bits |-> picture.bits, known |-> first])
    BY <2>5 DEF AsMeant
  <2> QED BY <2>1, <2>6, <2>7, <2>8, <2>9, WrittenStep DEF writeBitmap
<1> QED BY <1>2, <1>3

\* One editor, or one list, changes.
LEMMA EditorStep ==
  ASSUME BrowsersInv, NEW b \in Browsers, NEW e, EditorInv(e),
         editors' = [editors EXCEPT ![b] = e]
  PROVE  /\ editors' = [x \in Browsers |-> editors'[x]]
         /\ \A x \in Browsers : EditorInv(editors'[x])
<1>1. editors = [x \in Browsers |-> editors[x]] BY DEF BrowsersInv
<1>2. editors' = [x \in Browsers |-> IF x = b THEN e ELSE editors[x]] BY <1>1
<1>3. \A x \in Browsers : editors'[x] = IF x = b THEN e ELSE editors[x] BY <1>2
<1>4. editors' = [x \in Browsers |-> editors'[x]] BY <1>2
<1>5. \A x \in Browsers : EditorInv(editors[x]) BY DEF BrowsersInv
<1> QED BY <1>3, <1>4, <1>5

LEMMA ListStep ==
  ASSUME BrowsersInv, NEW b \in Browsers, NEW l, ListInv(l),
         listed' = [listed EXCEPT ![b] = l]
  PROVE  /\ listed' = [x \in Browsers |-> listed'[x]]
         /\ \A x \in Browsers : ListInv(listed'[x])
<1>1. listed = [x \in Browsers |-> listed[x]] BY DEF BrowsersInv
<1>2. listed' = [x \in Browsers |-> IF x = b THEN l ELSE listed[x]] BY <1>1
<1>3. \A x \in Browsers : listed'[x] = IF x = b THEN l ELSE listed[x] BY <1>2
<1>4. listed' = [x \in Browsers |-> listed'[x]] BY <1>2
<1>5. \A x \in Browsers : ListInv(listed[x]) BY DEF BrowsersInv
<1> QED BY <1>3, <1>4, <1>5

LEMMA WithinBitmap ==
  ASSUME NEW size, NEW bits \in SUBSET BitmapS
  PROVE  Within(size, bits) \in SUBSET BitmapS
  BY DEF Within

\* The pixels of an editor are in its grid, the grid in the bitmap.
LEMMA GridInFull ==
  ASSUME NEW size \in [width : 0 .. 60, height : 0 .. 48]
  PROVE  Grid(size) \in SUBSET Grid(Full)
<1>1. ASSUME NEW p \in Grid(size) PROVE p \in Grid(Full)
  <2> PICK w \in 0 .. 60, h \in 0 .. 48 : size.width = w /\ size.height = h OBVIOUS
  <2> PICK x \in 0 .. w - 1, y \in 0 .. h - 1 : p = <<x, y>> BY <1>1 DEF Grid
  <2>1. x \in 0 .. 59 /\ y \in 0 .. 47 OBVIOUS
  <2> QED BY <2>1 DEF Grid, Full, MAX_BMP_WIDTH, MAX_BMP_HEIGHT
<1> QED BY <1>1

LEMMA GridOfWeb ==
  ASSUME NEW c \in Nat
  PROVE  WebGrid(c) \in [width : 0 .. 60, height : 0 .. 48]
<1> PICK w \in 1 .. 60, h \in 1 .. 48 : WebGrid(c) = [width |-> w, height |-> h]
  BY WebGridSize
<1> QED OBVIOUS

\* Two pixels of a bitmap have two places.
LEMMA IndexTellsApart ==
  ASSUME NEW p \in Grid(Full), NEW q \in Grid(Full), IndexOf(p) = IndexOf(q)
  PROVE  p = q
<1>1. PICK x \in 0 .. 59, y \in 0 .. 47 : p = <<x, y>>
  BY DEF Grid, Full, MAX_BMP_WIDTH, MAX_BMP_HEIGHT
<1>2. PICK x1 \in 0 .. 59, y1 \in 0 .. 47 : q = <<x1, y1>>
  BY DEF Grid, Full, MAX_BMP_WIDTH, MAX_BMP_HEIGHT
<1>3. 60 * y + x = 60 * y1 + x1 BY <1>1, <1>2 DEF IndexOf, MAX_BMP_WIDTH
<1> QED BY <1>1, <1>2, <1>3

LEMMA EditStep ==
  ASSUME PicturesInv, NEW b \in Browsers, NEW id \in Ids, edit_image(b, id)
  PROVE  BrowsersInv'
<1>1. UNCHANGED listed BY DEF edit_image
<1>2. CASE UNCHANGED editors BY <1>1, <1>2, SameBrowsers DEF PicturesInv
<1>3. CASE ~ UNCHANGED editors
  <2> DEFINE size == WebGrid(panelsConfiguration)
             bits == bitmaps[id]
             m == meant[id]
             pixels == get_bitmap_data(panelsConfiguration, bits)
             mean == [bits |-> Within(size, m.bits), known |-> Within(size, m.known)]
             e == [id |-> id, size |-> size, pixels |-> pixels, meant |-> mean]
  <2>1. editors' = [editors EXCEPT ![b] = e] BY <1>3, Zenon DEF edit_image
  <2>2. bits \in SUBSET BitmapS /\ m \in Meaning /\ AsMeant(bits, m) /\ panelsConfiguration \in Nat
    BY DEF PicturesInv, FilesInv, LibraryInv
  <2>3. size \in [width : 0 .. 60, height : 0 .. 48] /\ Grid(size) \in SUBSET Grid(Full)
    BY <2>2, GridOfWeb, GridInFull
  <2>4. pixels \subseteq Grid(size) BY DEF get_bitmap_data
  <2>5. m.bits \in SUBSET BitmapS /\ m.known \in SUBSET BitmapS BY <2>2 DEF Meaning
  <2>6. mean \in Meaning BY <2>5, WithinBitmap DEF Meaning
  <2>7. {IndexOf(p) : p \in pixels} = Within(size, bits) BY <2>2, BrowserShows DEF Within
  <2>8. AsMeant(Within(size, bits), mean)
    <3>1. bits \cap m.known = m.bits \cap m.known BY <2>2 DEF AsMeant
    <3>2. Within(size, bits) \cap Within(size, m.known) = Within(size, m.bits) \cap Within(size, m.known)
      BY <3>1 DEF Within
    <3> QED BY <3>2 DEF AsMeant
  <2> HIDE DEF size, pixels, mean
  <2>9. EditorInv(e)
    <3>1. e \in Editors BY <2>3, <2>4, <2>6 DEF Editors
    <3>2. e.id = id /\ e.pixels = pixels /\ e.size = size /\ e.meant = mean OBVIOUS
    <3> HIDE DEF e
    <3> QED BY <2>4, <2>7, <2>8, <3>1, <3>2 DEF EditorInv
  <2> HIDE DEF e
  <2>10. BrowsersInv BY DEF PicturesInv
  <2>11. /\ editors' = [x \in Browsers |-> editors'[x]]
         /\ \A x \in Browsers : EditorInv(editors'[x])
    BY <2>1, <2>9, <2>10, EditorStep
  <2> QED BY <1>1, <2>10, <2>11 DEF BrowsersInv
<1> QED BY <1>2, <1>3

\* An editor's pixels change, and what is meant by them.
LEMMA ChangedEditor ==
  ASSUME NEW e, EditorInv(e), e # Closed,
         NEW pixels \in SUBSET Grid(e.size), NEW m \in Meaning,
         AsMeant({IndexOf(p) : p \in pixels}, m)
  PROVE  EditorInv([e EXCEPT !.pixels = pixels, !.meant = m])
<1> DEFINE new == [e EXCEPT !.pixels = pixels, !.meant = m]
<1>1. e \in Editors /\ e.id \in Ids BY DEF EditorInv
<1>2. new.id = e.id /\ new.size = e.size /\ new.pixels = pixels /\ new.meant = m
  BY <1>1 DEF Editors
<1>3. Grid(e.size) \in SUBSET Grid(Full) BY <1>1, GridInFull DEF Editors
<1>4. new \in Editors BY <1>1, <1>3 DEF Editors
<1> HIDE DEF new
<1>5. EditorInv(new) BY <1>1, <1>2, <1>4 DEF EditorInv
<1> QED BY <1>5 DEF new

LEMMA MouseStep ==
  ASSUME PicturesInv, NEW b \in Browsers, NEW p, on_editor_mousemove(b, p)
  PROVE  BrowsersInv'
<1> DEFINE e == editors[b]
           i == IndexOf(p)
           bits(pixels) == {IndexOf(q) : q \in pixels}
           flipped == Flip(e.pixels, p)
           m == [bits |-> IF p \in e.pixels THEN e.meant.bits \ {i} ELSE e.meant.bits \cup {i},
                 known |-> e.meant.known \cup {i}]
           new == [e EXCEPT !.pixels = flipped, !.meant = m]
<1>1. BrowsersInv /\ EditorInv(e) /\ UNCHANGED listed /\ p \in Grid(e.size)
  BY DEF PicturesInv, BrowsersInv, on_editor_mousemove
<1>2. editors' = [editors EXCEPT ![b] = new] BY DEF on_editor_mousemove
<1>3. /\ e.pixels \subseteq Grid(e.size) /\ Grid(e.size) \subseteq Grid(Full)
      /\ e.meant.bits \in SUBSET BitmapS /\ e.meant.known \in SUBSET BitmapS
      /\ AsMeant(bits(e.pixels), e.meant)
  BY <1>1, GridInFull DEF EditorInv, Editors, Meaning
<1>4. i \in BitmapS BY <1>1, <1>3, IndexInBitmap
<1>5. m \in Meaning BY <1>3, <1>4 DEF Meaning
<1>6. flipped \in SUBSET Grid(e.size) BY <1>1, <1>3 DEF Flip
<1>7. bits(flipped) = IF p \in e.pixels THEN bits(e.pixels) \ {i} ELSE bits(e.pixels) \cup {i}
  <2>1. \A q \in e.pixels : IndexOf(q) = i => q = p BY <1>1, <1>3, IndexTellsApart
  <2>2. CASE p \in e.pixels
    <3>1. flipped = e.pixels \ {p} BY <2>2 DEF Flip
    <3> HIDE DEF flipped, e
    <3> QED BY <2>1, <2>2, <3>1
  <2>3. CASE p \notin e.pixels
    <3>1. flipped = e.pixels \cup {p} BY <2>3 DEF Flip
    <3> HIDE DEF flipped, e
    <3> QED BY <2>1, <2>3, <3>1
  <2> QED BY <2>2, <2>3
<1>8. AsMeant(bits(flipped), m)
  <2>1. bits(e.pixels) \cap e.meant.known = e.meant.bits \cap e.meant.known BY <1>3 DEF AsMeant
  <2> HIDE DEF bits, flipped
  <2> QED BY <1>7, <2>1 DEF AsMeant
<1>9. e # Closed
  <2>1. ASSUME e = Closed PROVE FALSE
    <3>1. e.size = [width |-> 0, height |-> 0] BY <2>1 DEF Closed
    <3> HIDE DEF e
    <3>2. Grid(e.size) = {} BY <3>1 DEF Grid
    <3> QED BY <1>1, <3>2
  <2> QED BY <2>1
<1>10. EditorInv(new)
  <2> HIDE DEF e, m, flipped
  <2> QED BY <1>1, <1>5, <1>6, <1>8, <1>9, ChangedEditor
<1> HIDE DEF new
<1>11. /\ editors' = [x \in Browsers |-> editors'[x]]
       /\ \A x \in Browsers : EditorInv(editors'[x])
  BY <1>1, <1>2, <1>10, EditorStep
<1> QED BY <1>1, <1>11 DEF BrowsersInv

LEMMA LoadStep ==
  ASSUME PicturesInv, \A lib \in Libraries : WellNamed(lib),
         NEW b \in Browsers, load_from_library(b)
  PROVE  BrowsersInv'
<1> DEFINE images == enum_library_contents(library, panelsConfiguration).images
           l == [images |-> images, library |-> library]
<1>1. BrowsersInv /\ IsLibrary(library) /\ UNCHANGED editors /\ listed' = [listed EXCEPT ![b] = l]
  BY DEF PicturesInv, LibraryInv, load_from_library
<1>2. library.images \in Seq(LibraryImages(library)) /\ library.sequences \in Seq(LibrarySequences)
  BY <1>1, LibraryTypes
<1>3. Named(library.images) /\ Named(library.sequences)
  BY <1>1, LibraryNamed DEF WellNamed
<1>4. images \in {<<>>, NamesOf(library.images)}
  <2>1. enum_library_contents(library, panelsConfiguration) =
          IF libraryCheckWidthHeight(library, panelsConfiguration)
          THEN [images |-> NamesOf(library.images), sequences |-> NamesOf(library.sequences)]
          ELSE [images |-> <<>>, sequences |-> <<>>]
    BY <1>2, <1>3, WholeLists, Zenon
  <2> QED BY <2>1
<1> HIDE DEF images
<1>5. ListInv(l) BY <1>1, <1>4 DEF ListInv
<1> HIDE DEF l
<1> QED BY <1>1, <1>5, ListStep DEF BrowsersInv

LEMMA GiveUpStep ==
  ASSUME PicturesInv, NEW b \in Browsers, GiveUp(b)
  PROVE  BrowsersInv'
<1>1. BrowsersInv BY DEF PicturesInv
<1>2. editors' = [editors EXCEPT ![b] = Closed] /\ listed' = [listed EXCEPT ![b] = NotListed]
  BY DEF GiveUp
<1> QED BY <1>1, <1>2, ClosedEditor, EditorStep, ListStep DEF BrowsersInv

\* What is saved is what the editor shows.
LEMMA SaveStep ==
  ASSUME PicturesInv, NEW b \in Browsers, save_bitmap(b)
  PROVE  FilesInv' /\ BrowsersInv'
<1> DEFINE e == editors[b]
           bits == {IndexOf(p) : p \in e.pixels}
<1>1. FilesInv /\ BrowsersInv /\ EditorInv(e) /\ e # Closed /\ UNCHANGED listed
  BY DEF PicturesInv, BrowsersInv, save_bitmap
<1>2. CASE UNCHANGED <<bitmaps, meant, editors>>
  BY <1>1, <1>2, SameFiles, SameBrowsers
<1>3. CASE ~ UNCHANGED <<bitmaps, meant, editors>>
  <2>1. /\ writeBitmap(e.id, StringToHex(2 * BitmapBytes, save_image(e.pixels), BitmapBytes))
        /\ meant' = [meant EXCEPT ![e.id] = e.meant]
        /\ editors' = [editors EXCEPT ![b] = Closed]
    BY <1>3, Zenon DEF save_bitmap
  <2>2. e.id \in Ids /\ e.pixels \in SUBSET Grid(Full) /\ e.meant \in Meaning /\ AsMeant(bits, e.meant)
    BY <1>1 DEF EditorInv, Editors
  <2>3. StringToHex(2 * BitmapBytes, save_image(e.pixels), BitmapBytes) = bits
    BY <2>2, BrowserWrites
  <2>4. bits \in SUBSET BitmapS BY <2>2, IndexInBitmap
  <2> HIDE DEF e, bits
  <2>5. FilesInv' BY <1>1, <2>1, <2>2, <2>3, <2>4, WrittenStep DEF writeBitmap
  <2>6. BrowsersInv'
    <3>1. /\ editors' = [x \in Browsers |-> editors'[x]]
          /\ \A x \in Browsers : EditorInv(editors'[x])
      BY <1>1, <2>1, ClosedEditor, EditorStep
    <3> QED BY <1>1, <3>1 DEF BrowsersInv
  <2> QED BY <2>5, <2>6
<1> QED BY <1>2, <1>3

\* No two images of a library have the same name.
ImagesApart(lib) ==
  \A j, k \in DOMAIN lib.images : lib.images[j].name = lib.images[k].name => j = k

\* The image a user chooses by its name is shown in the editor pixel by pixel.
LEMMA ImageInEditor ==
  ASSUME NEW c \in Nat, NEW lib, IsLibrary(lib), libraryCheckWidthHeight(lib, c),
         NEW i \in 0 .. Len(lib.images) - 1, NEW junk
  PROVE  /\ lib.images[i + 1].pixels \in SUBSET Grid(WebGrid(c))
         /\ get_library_bitmap_data(lib, c, i, junk) = lib.images[i + 1].pixels
<1> DEFINE image == lib.images[i + 1]
<1>1. lib.images \in Seq(LibraryImages(lib)) BY LibraryTypes
<1>2. i \in Nat /\ image \in LibraryImages(lib)
  <2>1. i + 1 \in 1 .. Len(lib.images) BY <1>1
  <2> QED BY <1>1, <2>1, ElementOfSeq
<1>3. image.pixels \in SUBSET Grid(lib) BY <1>2 DEF LibraryImages
<1>4. DimensionsFromConfig(c) = GetDimensions(c) BY DEF DimensionsFromConfig, GetDimensions
<1>5. lib.width = GetDimensions(c).width /\ lib.height = GetDimensions(c).height
  BY <1>4 DEF libraryCheckWidthHeight
<1>6. CASE GetDimensions(c).width = 0
  <2>1. Grid(lib) = {} BY <1>5, <1>6 DEF Grid
  <2>2. image.pixels = {} BY <1>3, <2>1
  <2>3. HexToString(Stored(lib, image)) = {}
    <3>1. Stored(lib, image) = {} BY <2>2 DEF Stored
    <3> QED BY <3>1 DEF HexToString
  <2>4. libraryReadImage(lib, c, i, junk) = [valid |-> TRUE, digits |-> {}]
    BY <1>2, <2>3 DEF libraryReadImage
  <2>5. get_library_bitmap_data(lib, c, i, junk) = {}
    BY <2>4 DEF get_library_bitmap_data, check_bitmap_bit
  <2> QED BY <2>2, <2>5
<1>7. CASE GetDimensions(c).width # 0
  <2>1. WebGrid(c) = GetDimensions(c) BY <1>7 DEF WebGrid
  <2>2. lib.width = WebGrid(c).width /\ Grid(lib) = Grid(WebGrid(c)) BY <1>5, <2>1 DEF Grid
  <2> QED BY <1>2, <1>3, <2>2, LibraryImageShown
<1> QED BY <1>6, <1>7

LEMMA SelectStep ==
  ASSUME PicturesInv, \A lib \in Libraries : ImagesApart(lib),
         NEW b \in Browsers, NEW i, select_library_image(b, i)
  PROVE  BrowsersInv'
<1> DEFINE e == editors[b]
           l == listed[b]
           c == panelsConfiguration
           size == WebGrid(c)
           drawn == Drawn(e.size, size)
           data(junk) == get_library_bitmap_data(library, c, i, HexToString(junk))
           pixels(junk) == (e.pixels \ drawn) \cup (data(junk) \cap drawn)
           m == ImageMeant(b, i)
           asListed == /\ l.library = library /\ libraryCheckWidthHeight(library, c)
                       /\ size = e.size
<1>1. /\ BrowsersInv /\ EditorInv(e) /\ e # Closed /\ ListInv(l) /\ IsLibrary(library) /\ c \in Nat
      /\ i \in 0 .. Len(l.images) - 1 /\ listed' = [listed EXCEPT ![b] = NotListed]
  BY DEF PicturesInv, BrowsersInv, LibraryInv, select_library_image
<1>2. CASE UNCHANGED editors
  BY <1>1, <1>2, ClosedEditor, ListStep DEF BrowsersInv
<1>3. CASE ~ UNCHANGED editors
  <2> PICK junk \in Junk :
        editors' = [editors EXCEPT ![b] = [e EXCEPT !.pixels = pixels(junk), !.meant = m]]
    BY <1>3 DEF select_library_image
  <2>1. e.pixels \subseteq Grid(e.size) /\ e.size \in [width : 0 .. 60, height : 0 .. 48]
    BY <1>1 DEF EditorInv, Editors
  <2>2. drawn \subseteq Grid(e.size) BY DEF Drawn
  <2>3. pixels(junk) \in SUBSET Grid(e.size) BY <2>1, <2>2
  <2>4. m \in Meaning /\ AsMeant({IndexOf(p) : p \in pixels(junk)}, m)
    <3>1. CASE asListed
      <4> DEFINE image == library.images[i + 1]
                 named == CHOOSE x \in ToSet(library.images) : x.name = l.images[i + 1]
      <4>1. library.images \in Seq(LibraryImages(library)) BY <1>1, LibraryTypes
      <4>2. l.images = NamesOf(library.images) /\ i \in 0 .. Len(library.images) - 1
        <5>1. l.images # <<>>
          <6>1. ASSUME l.images = <<>> PROVE FALSE
            <7>1. Len(l.images) = 0 BY <6>1
            <7> QED BY <1>1, <7>1
          <6> QED BY <6>1
        <5>2. l.images = NamesOf(library.images) BY <1>1, <3>1, <5>1 DEF ListInv
        <5>3. Len(NamesOf(library.images)) = Len(library.images) BY <4>1 DEF NamesOf
        <5> QED BY <1>1, <5>2, <5>3
      <4>3. i + 1 \in DOMAIN library.images /\ DOMAIN library.images = 1 .. Len(library.images)
        BY <4>1, <4>2
      <4>4. l.images[i + 1] = image.name BY <4>2, <4>3 DEF NamesOf
      <4>5. named = image
        <5>1. image \in ToSet(library.images) BY <4>3 DEF ToSet
        <5>2. ASSUME NEW x \in ToSet(library.images), x.name = image.name PROVE x = image
          <6> PICK j \in DOMAIN library.images : x = library.images[j] BY DEF ToSet
          <6>1. ImagesApart(library)
            <7>1. CASE library = NoLibrary BY <4>3, <7>1 DEF NoLibrary
            <7> QED BY <1>1, <7>1 DEF IsLibrary
          <6>2. j = i + 1 BY <4>3, <5>2, <6>1 DEF ImagesApart
          <6> QED BY <6>2
        <5> HIDE DEF image
        <5>3. named \in ToSet(library.images) /\ named.name = image.name BY <4>4, <5>1
        <5> QED BY <5>2, <5>3
      <4>6. image.pixels \in SUBSET Grid(size) /\ data(junk) = image.pixels
        BY <1>1, <3>1, <4>2, ImageInEditor
      <4>7. drawn = Grid(e.size)
        <5> PICK w \in 0 .. 60, h \in 0 .. 48 : e.size = [width |-> w, height |-> h] BY <2>1
        <5>1. drawn = {p \in Grid(e.size) : p[1] < w /\ p[2] < h} BY <3>1 DEF Drawn
        <5>2. \A p \in Grid(e.size) : p[1] < w /\ p[2] < h BY DEF Grid
        <5> HIDE DEF drawn
        <5> QED BY <5>1, <5>2
      <4>8. pixels(junk) = image.pixels BY <2>1, <3>1, <4>6, <4>7
      <4>9. m = [bits |-> {IndexOf(p) : p \in image.pixels}, known |-> Within(e.size, BitmapS)]
        BY <3>1, <4>5 DEF ImageMeant
      <4>10. image.pixels \in SUBSET Grid(Full) BY <2>1, <3>1, <4>6, GridInFull
      <4> HIDE DEF image, pixels, m
      <4>11. {IndexOf(p) : p \in image.pixels} \in SUBSET BitmapS BY <4>10, IndexInBitmap
      <4>12. Within(e.size, BitmapS) \in SUBSET BitmapS BY WithinBitmap
      <4>13. m \in Meaning BY <4>9, <4>11, <4>12 DEF Meaning
      <4> QED BY <4>8, <4>9, <4>13 DEF AsMeant
    <3>2. CASE ~asListed
      <4>1. m = [bits |-> {}, known |-> {}] BY <3>2 DEF ImageMeant
      <4> QED BY <4>1 DEF Meaning, AsMeant
    <3> QED BY <3>1, <3>2
  <2> HIDE DEF e, m, pixels
  <2>5. EditorInv([e EXCEPT !.pixels = pixels(junk), !.meant = m])
    BY <1>1, <2>3, <2>4, ChangedEditor
  <2>6. /\ editors' = [x \in Browsers |-> editors'[x]]
        /\ \A x \in Browsers : EditorInv(editors'[x])
    BY <1>1, <2>5, EditorStep
  <2>7. /\ listed' = [x \in Browsers |-> listed'[x]]
        /\ \A x \in Browsers : ListInv(listed'[x])
    BY <1>1, ClosedEditor, ListStep
  <2> QED BY <2>6, <2>7 DEF BrowsersInv
<1> QED BY <1>2, <1>3

LEMMA ProcessKeepsPictures ==
  ASSUME \A lib \in Libraries : WellNamed(lib) /\ ImagesApart(lib)
  PROVE  scene \in Scenes /\ PicturesInv /\ [Next]_vars => PicturesInv'
<1> SUFFICES ASSUME scene \in Scenes, PicturesInv, [Next]_vars PROVE FilesInv' /\ BrowsersInv'
  BY ProcessKeepsLibrary DEF PicturesInv
<1>0. FilesInv /\ BrowsersInv BY DEF PicturesInv
<1>1. CASE UNCHANGED pictureVars BY <1>0, <1>1, SameFiles, SameBrowsers DEF pictureVars
<1>2. ASSUME NEW id \in Ids \cup {MAX_BITMAPS}, NEW picture \in HostPictures, processBMP(id + 1, picture)
      PROVE  FilesInv' /\ BrowsersInv'
  <2>1. UNCHANGED <<editors, listed>> BY <1>2 DEF processBMP
  <2> QED BY <1>0, <1>2, <2>1, BmpStep, SameBrowsers
<1>3. ASSUME NEW b \in scene.browsers,
             \/ \E id \in Ids : edit_image(b, id)
             \/ \E p \in Pens : on_editor_mousemove(b, p)
             \/ load_from_library(b)
             \/ \E i : select_library_image(b, i)
      PROVE  FilesInv' /\ BrowsersInv'
  <2>1. b \in Browsers BY <1>3, StoreAssumption
  <2>2. UNCHANGED <<bitmaps, meant>>
    BY <1>3 DEF edit_image, on_editor_mousemove, load_from_library, select_library_image
  <2>3. BrowsersInv' BY <1>3, <2>1, EditStep, MouseStep, LoadStep, SelectStep
  <2> QED BY <1>0, <2>2, <2>3, SameFiles
<1>4. ASSUME NEW b \in scene.browsers, save_bitmap(b) PROVE FilesInv' /\ BrowsersInv'
  <2>1. b \in Browsers BY <1>4, StoreAssumption
  <2> QED BY <1>4, <2>1, SaveStep
<1>5. ASSUME NEW b \in scene.browsers, GiveUp(b) PROVE FilesInv' /\ BrowsersInv'
  <2>1. b \in Browsers /\ UNCHANGED <<bitmaps, meant>> BY <1>5, StoreAssumption DEF GiveUp
  <2> QED BY <1>0, <1>5, <2>1, GiveUpStep, SameFiles
<1>6. ASSUME NEW b, NEW uploaded, upload(b, uploaded) PROVE FilesInv' /\ BrowsersInv'
  BY <1>0, <1>6, SameFiles, SameBrowsers DEF upload
<1>7. ASSUME NEW c, Reconfigured(c) PROVE FilesInv' /\ BrowsersInv'
  BY <1>0, <1>7, SameFiles, SameBrowsers DEF Reconfigured
<1>8. CASE UNCHANGED vars BY <1>1, <1>8 DEF vars, pictureVars
<1> QED BY <1>1, <1>2, <1>3, <1>4, <1>5, <1>6, <1>7, <1>8 DEF Next, Process

\* PicturesAsMeant, for every set of pictures, pixels, libraries and
\* configurations, if the images of a library have names of their own: however
\* host and browsers write in each other's way, what is stored is what its last
\* writer meant, and everyone is shown that.
THEOREM PicturesAsMeantHolds ==
  ASSUME \A lib \in Libraries : WellNamed(lib) /\ ImagesApart(lib)
  PROVE  Spec => []PicturesAsMeant
<1>1. Init => scene \in Scenes BY DEF Init
<1>2. scene \in Scenes /\ [Next]_vars => (scene \in Scenes)' BY DEF Next, vars
<1> QED BY <1>1, <1>2, PicturesStart, ProcessKeepsPictures, PicturesShown, PTL DEF Spec
=============================================================================
