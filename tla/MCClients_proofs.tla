--------------------------- MODULE MCClients_proofs ---------------------------
(***************************************************************************)
(* What the machines of a tab promise at every moment, each by itself, and *)
(* so beside the others: they share no state.                              *)
(***************************************************************************)
EXTENDS MCClients, FiniteSetTheorems, SequenceTheorems, WellFoundedInduction, TLAPS

\* A step is one of the chosen machine, which leaves the others' variables alone.
LEMMA OneMachine ==
    ASSUME [MCNext]_allVars
    PROVE  /\ [Next]_vars
           /\ [T!Next]_tradeVars
           /\ [P!Next]_priceVars
           /\ [S!Next]_sessionVars
           /\ [R!Next]_rowVars
           /\ [A!Next]_accountVars
           /\ [L!Next]_lineVars
<1>1. CASE UNCHANGED allVars
  BY <1>1 DEF allVars
<1>2. CASE MCNext
  BY <1>2 DEF MCNext, Bars, Trade, Price, Session, Row, Account, Line
<1> QED
  BY <1>1, <1>2

-----------------------------------------------------------------------------
(* The session. *)

LEMMA InitSession == S!Init => S!SessionInv
<1> SUFFICES ASSUME S!Init PROVE S!SessionInv
  OBVIOUS
<1>1. /\ sessionCalm \in BOOLEAN /\ cookies \in S!Cookies
      /\ {hint, isAuthenticated, isInitialized, signOut} \subseteq BOOLEAN
  BY DEF S!Init
<1>2. signs \in 0..MaxSigns /\ ends \in 0..MaxEnds /\ errors \in 0..MaxErrors
  BY ClientsAssumption DEF S!Init
<1>3. S!TypeOK
  BY <1>1, <1>2 DEF S!TypeOK, S!Init, S!Flows
<1> QED
  BY <1>3 DEF S!SessionInv, S!Init, S!Nothing, S!Alive

LEMMA NextSession == S!SessionInv /\ [S!Next]_sessionVars => S!SessionInv'
<1> SUFFICES ASSUME S!SessionInv, S!Next PROVE S!SessionInv'
  <2>1. CASE UNCHANGED sessionVars
    BY <2>1 DEF sessionVars, S!SessionInv, S!TypeOK, S!ShownSoon, S!Alive
  <2> QED
    BY <2>1
<1> USE DEF S!SessionInv
<1>1. ASSUME S!loadUser PROVE S!SessionInv'
  <2>1. S!TypeOK'
    <3>1. /\ sessionCalm' \in BOOLEAN /\ cookies' \in S!Cookies
          /\ {hint', isAuthenticated', isInitialized', signOut'} \subseteq BOOLEAN
      BY <1>1 DEF S!TypeOK, S!loadUser, S!Sent, S!store, S!flows, S!Cookies
    <3>2. signs' \in 0..MaxSigns /\ ends' \in 0..MaxEnds /\ errors' \in 0..MaxErrors
      BY <1>1, ClientsAssumption DEF S!TypeOK, S!loadUser, S!Sent, S!store, S!flows
    <3>3. /\ userLoad' \in S!Flows({"me", "refresh", "meAgain"})
          /\ signIn' \in S!Flows({"me"}) /\ refresh' \in S!Flows({"me"})
      BY <1>1 DEF S!TypeOK, S!loadUser, S!Sent, S!store, S!flows, S!Asking, S!Flows, S!Replies,
          S!Nothing
    <3> QED
      BY <3>1, <3>2, <3>3 DEF S!TypeOK
  <2>2. ASSUME sessionCalm' PROVE S!SessionInv'
    BY <1>1, <2>1, <2>2 DEF S!TypeOK, S!loadUser, S!Sent, S!store, S!flows, S!Asking, S!Flows,
        S!Replies, S!Nothing, S!Alive, S!Idle, S!ShownSoon, S!Cookies
  <2> QED
    BY <2>1, <2>2
<1>2. ASSUME S!LoadAnswered PROVE S!SessionInv'
  <2>1. S!TypeOK'
    <3>1. /\ sessionCalm' \in BOOLEAN /\ cookies' \in S!Cookies
          /\ {hint', isAuthenticated', isInitialized', signOut'} \subseteq BOOLEAN
      BY <1>2 DEF S!TypeOK, S!LoadAnswered, S!Sent, S!LoadEnds, S!SignedIn, S!store, S!flows,
          S!Cookies
    <3>2. signs' \in 0..MaxSigns /\ ends' \in 0..MaxEnds /\ errors' \in 0..MaxErrors
      BY <1>2, ClientsAssumption DEF S!TypeOK, S!LoadAnswered, S!Sent, S!LoadEnds, S!SignedIn,
          S!store, S!flows
    <3>3. /\ userLoad' \in S!Flows({"me", "refresh", "meAgain"})
          /\ signIn' \in S!Flows({"me"}) /\ refresh' \in S!Flows({"me"})
      BY <1>2 DEF S!TypeOK, S!LoadAnswered, S!Sent, S!LoadEnds, S!SignedIn, S!store, S!flows,
          S!Asking, S!Flows, S!Replies, S!Nothing
    <3> QED
      BY <3>1, <3>2, <3>3 DEF S!TypeOK
  <2>2. ASSUME sessionCalm' PROVE S!SessionInv'
    BY <1>2, <2>1, <2>2 DEF S!TypeOK, S!LoadAnswered, S!Sent, S!LoadEnds, S!SignedIn, S!store,
        S!flows, S!Asking, S!Flows, S!Replies, S!Nothing, S!Alive, S!Idle, S!ShownSoon, S!Cookies
  <2> QED
    BY <2>1, <2>2
<1>3. ASSUME S!redeemHandoff PROVE S!SessionInv'
  <2>1. S!TypeOK'
    <3>1. /\ sessionCalm' \in BOOLEAN /\ cookies' \in S!Cookies
          /\ {hint', isAuthenticated', isInitialized', signOut'} \subseteq BOOLEAN
      BY <1>3 DEF S!TypeOK, S!redeemHandoff, S!store, S!flows, S!Cookies
    <3>2. signs' \in 0..MaxSigns /\ ends' \in 0..MaxEnds /\ errors' \in 0..MaxErrors
      BY <1>3, ClientsAssumption DEF S!TypeOK, S!redeemHandoff, S!store, S!flows
    <3>3. /\ userLoad' \in S!Flows({"me", "refresh", "meAgain"})
          /\ signIn' \in S!Flows({"me"}) /\ refresh' \in S!Flows({"me"})
      BY <1>3 DEF S!TypeOK, S!redeemHandoff, S!store, S!flows, S!Asking, S!Flows, S!Replies,
          S!Nothing
    <3> QED
      BY <3>1, <3>2, <3>3 DEF S!TypeOK
  <2>2. ASSUME sessionCalm' PROVE S!SessionInv'
    BY <1>3, <2>1, <2>2 DEF S!TypeOK, S!redeemHandoff, S!store, S!flows, S!Asking, S!Flows,
        S!Replies, S!Nothing, S!Alive, S!Idle, S!ShownSoon, S!Cookies
  <2> QED
    BY <2>1, <2>2
<1>4. ASSUME S!Reload PROVE S!SessionInv'
  <2>1. S!TypeOK'
    <3>1. /\ sessionCalm' \in BOOLEAN /\ cookies' \in S!Cookies
          /\ {hint', isAuthenticated', isInitialized', signOut'} \subseteq BOOLEAN
      BY <1>4 DEF S!TypeOK, S!Reload, S!store, S!flows, S!Cookies
    <3>2. signs' \in 0..MaxSigns /\ ends' \in 0..MaxEnds /\ errors' \in 0..MaxErrors
      BY <1>4, ClientsAssumption DEF S!TypeOK, S!Reload, S!store, S!flows
    <3>3. /\ userLoad' \in S!Flows({"me", "refresh", "meAgain"})
          /\ signIn' \in S!Flows({"me"}) /\ refresh' \in S!Flows({"me"})
      BY <1>4 DEF S!TypeOK, S!Reload, S!store, S!flows, S!Asking, S!Flows, S!Replies, S!Nothing
    <3> QED
      BY <3>1, <3>2, <3>3 DEF S!TypeOK
  <2>2. ASSUME sessionCalm' PROVE S!SessionInv'
    BY <1>4, <2>1, <2>2 DEF S!TypeOK, S!Reload, S!store, S!flows, S!Asking, S!Flows, S!Replies,
        S!Nothing, S!Alive, S!Idle, S!ShownSoon, S!Cookies
  <2> QED
    BY <2>1, <2>2
<1>5. ASSUME S!login PROVE S!SessionInv'
  <2>1. S!TypeOK'
    <3>1. /\ sessionCalm' \in BOOLEAN /\ cookies' \in S!Cookies
          /\ {hint', isAuthenticated', isInitialized', signOut'} \subseteq BOOLEAN
      BY <1>5 DEF S!TypeOK, S!login, S!Clicks, S!Profile, S!store, S!flows, S!Cookies
    <3>2. signs' \in 0..MaxSigns /\ ends' \in 0..MaxEnds /\ errors' \in 0..MaxErrors
      BY <1>5, ClientsAssumption DEF S!TypeOK, S!login, S!Clicks, S!Profile, S!store, S!flows
    <3>3. /\ userLoad' \in S!Flows({"me", "refresh", "meAgain"})
          /\ signIn' \in S!Flows({"me"}) /\ refresh' \in S!Flows({"me"})
      BY <1>5 DEF S!TypeOK, S!login, S!Clicks, S!Profile, S!store, S!flows, S!Asking, S!Flows,
          S!Replies, S!Nothing
    <3> QED
      BY <3>1, <3>2, <3>3 DEF S!TypeOK
  <2>2. ASSUME sessionCalm' PROVE S!SessionInv'
    BY <1>5, <2>1, <2>2 DEF S!TypeOK, S!login, S!Clicks, S!Profile, S!store, S!flows, S!Asking,
        S!Flows, S!Replies, S!Nothing, S!Alive, S!Idle, S!ShownSoon, S!Cookies
  <2> QED
    BY <2>1, <2>2
<1>6. ASSUME S!LoginAnswered PROVE S!SessionInv'
  <2>1. S!TypeOK'
    <3>1. /\ sessionCalm' \in BOOLEAN /\ cookies' \in S!Cookies
          /\ {hint', isAuthenticated', isInitialized', signOut'} \subseteq BOOLEAN
      BY <1>6 DEF S!TypeOK, S!LoginAnswered, S!store, S!flows, S!Cookies
    <3>2. signs' \in 0..MaxSigns /\ ends' \in 0..MaxEnds /\ errors' \in 0..MaxErrors
      BY <1>6, ClientsAssumption DEF S!TypeOK, S!LoginAnswered, S!store, S!flows
    <3>3. /\ userLoad' \in S!Flows({"me", "refresh", "meAgain"})
          /\ signIn' \in S!Flows({"me"}) /\ refresh' \in S!Flows({"me"})
      BY <1>6 DEF S!TypeOK, S!LoginAnswered, S!store, S!flows, S!Asking, S!Flows, S!Replies,
          S!Nothing
    <3> QED
      BY <3>1, <3>2, <3>3 DEF S!TypeOK
  <2>2. ASSUME sessionCalm' PROVE S!SessionInv'
    BY <1>6, <2>1, <2>2 DEF S!TypeOK, S!LoginAnswered, S!store, S!flows, S!Asking, S!Flows,
        S!Replies, S!Nothing, S!Alive, S!Idle, S!ShownSoon, S!Cookies
  <2> QED
    BY <2>1, <2>2
<1>7. ASSUME S!SignUp PROVE S!SessionInv'
  <2>1. S!TypeOK'
    <3>1. /\ sessionCalm' \in BOOLEAN /\ cookies' \in S!Cookies
          /\ {hint', isAuthenticated', isInitialized', signOut'} \subseteq BOOLEAN
      BY <1>7 DEF S!TypeOK, S!SignUp, S!Clicks, S!Profile, S!store, S!flows, S!Cookies
    <3>2. signs' \in 0..MaxSigns /\ ends' \in 0..MaxEnds /\ errors' \in 0..MaxErrors
      BY <1>7, ClientsAssumption DEF S!TypeOK, S!SignUp, S!Clicks, S!Profile, S!store, S!flows
    <3>3. /\ userLoad' \in S!Flows({"me", "refresh", "meAgain"})
          /\ signIn' \in S!Flows({"me"}) /\ refresh' \in S!Flows({"me"})
      BY <1>7 DEF S!TypeOK, S!SignUp, S!Clicks, S!Profile, S!store, S!flows, S!Asking, S!Flows,
          S!Replies, S!Nothing
    <3> QED
      BY <3>1, <3>2, <3>3 DEF S!TypeOK
  <2>2. ASSUME sessionCalm' PROVE S!SessionInv'
    BY <1>7, <2>1, <2>2 DEF S!TypeOK, S!SignUp, S!Clicks, S!Profile, S!store, S!flows, S!Asking,
        S!Flows, S!Replies, S!Nothing, S!Alive, S!Idle, S!ShownSoon, S!Cookies
  <2> QED
    BY <2>1, <2>2
<1>8. ASSUME S!refreshUser PROVE S!SessionInv'
  <2>1. S!TypeOK'
    <3>1. /\ sessionCalm' \in BOOLEAN /\ cookies' \in S!Cookies
          /\ {hint', isAuthenticated', isInitialized', signOut'} \subseteq BOOLEAN
      BY <1>8 DEF S!TypeOK, S!refreshUser, S!Sent, S!store, S!flows, S!Cookies
    <3>2. signs' \in 0..MaxSigns /\ ends' \in 0..MaxEnds /\ errors' \in 0..MaxErrors
      BY <1>8, ClientsAssumption DEF S!TypeOK, S!refreshUser, S!Sent, S!store, S!flows
    <3>3. /\ userLoad' \in S!Flows({"me", "refresh", "meAgain"})
          /\ signIn' \in S!Flows({"me"}) /\ refresh' \in S!Flows({"me"})
      BY <1>8 DEF S!TypeOK, S!refreshUser, S!Sent, S!store, S!flows, S!Asking, S!Flows,
          S!Replies, S!Nothing
    <3> QED
      BY <3>1, <3>2, <3>3 DEF S!TypeOK
  <2>2. ASSUME sessionCalm' PROVE S!SessionInv'
    BY <1>8, <2>1, <2>2 DEF S!TypeOK, S!refreshUser, S!Sent, S!store, S!flows, S!Asking,
        S!Flows, S!Replies, S!Nothing, S!Alive, S!Idle, S!ShownSoon, S!Cookies
  <2> QED
    BY <2>1, <2>2
<1>9. ASSUME S!RefreshAnswered PROVE S!SessionInv'
  <2>1. S!TypeOK'
    <3>1. /\ sessionCalm' \in BOOLEAN /\ cookies' \in S!Cookies
          /\ {hint', isAuthenticated', isInitialized', signOut'} \subseteq BOOLEAN
      BY <1>9 DEF S!TypeOK, S!RefreshAnswered, S!SignedIn, S!store, S!flows, S!Cookies
    <3>2. signs' \in 0..MaxSigns /\ ends' \in 0..MaxEnds /\ errors' \in 0..MaxErrors
      BY <1>9, ClientsAssumption DEF S!TypeOK, S!RefreshAnswered, S!SignedIn, S!store, S!flows
    <3>3. /\ userLoad' \in S!Flows({"me", "refresh", "meAgain"})
          /\ signIn' \in S!Flows({"me"}) /\ refresh' \in S!Flows({"me"})
      BY <1>9 DEF S!TypeOK, S!RefreshAnswered, S!SignedIn, S!store, S!flows, S!Asking, S!Flows,
          S!Replies, S!Nothing
    <3> QED
      BY <3>1, <3>2, <3>3 DEF S!TypeOK
  <2>2. ASSUME sessionCalm' PROVE S!SessionInv'
    BY <1>9, <2>1, <2>2 DEF S!TypeOK, S!RefreshAnswered, S!SignedIn, S!store, S!flows, S!Asking,
        S!Flows, S!Replies, S!Nothing, S!Alive, S!Idle, S!ShownSoon, S!Cookies
  <2> QED
    BY <2>1, <2>2
<1>10. ASSUME S!logout PROVE S!SessionInv'
  <2>1. S!TypeOK'
    <3>1. /\ sessionCalm' \in BOOLEAN /\ cookies' \in S!Cookies
          /\ {hint', isAuthenticated', isInitialized', signOut'} \subseteq BOOLEAN
      BY <1>10 DEF S!TypeOK, S!logout, S!Clicks, S!store, S!flows, S!Cookies
    <3>2. signs' \in 0..MaxSigns /\ ends' \in 0..MaxEnds /\ errors' \in 0..MaxErrors
      BY <1>10, ClientsAssumption DEF S!TypeOK, S!logout, S!Clicks, S!store, S!flows
    <3>3. /\ userLoad' \in S!Flows({"me", "refresh", "meAgain"})
          /\ signIn' \in S!Flows({"me"}) /\ refresh' \in S!Flows({"me"})
      BY <1>10 DEF S!TypeOK, S!logout, S!Clicks, S!store, S!flows, S!Asking, S!Flows, S!Replies,
          S!Nothing
    <3> QED
      BY <3>1, <3>2, <3>3 DEF S!TypeOK
  <2>2. ASSUME sessionCalm' PROVE S!SessionInv'
    BY <1>10, <2>1, <2>2 DEF S!TypeOK, S!logout, S!Clicks, S!store, S!flows, S!Asking, S!Flows,
        S!Replies, S!Nothing, S!Alive, S!Idle, S!ShownSoon, S!Cookies
  <2> QED
    BY <2>1, <2>2
<1>11. ASSUME S!LogoutAnswered PROVE S!SessionInv'
  <2>1. S!TypeOK'
    <3>1. /\ sessionCalm' \in BOOLEAN /\ cookies' \in S!Cookies
          /\ {hint', isAuthenticated', isInitialized', signOut'} \subseteq BOOLEAN
      BY <1>11 DEF S!TypeOK, S!LogoutAnswered, S!store, S!flows, S!Cookies
    <3>2. signs' \in 0..MaxSigns /\ ends' \in 0..MaxEnds /\ errors' \in 0..MaxErrors
      BY <1>11, ClientsAssumption DEF S!TypeOK, S!LogoutAnswered, S!store, S!flows
    <3>3. /\ userLoad' \in S!Flows({"me", "refresh", "meAgain"})
          /\ signIn' \in S!Flows({"me"}) /\ refresh' \in S!Flows({"me"})
      BY <1>11 DEF S!TypeOK, S!LogoutAnswered, S!store, S!flows, S!Asking, S!Flows, S!Replies,
          S!Nothing
    <3> QED
      BY <3>1, <3>2, <3>3 DEF S!TypeOK
  <2>2. ASSUME sessionCalm' PROVE S!SessionInv'
    BY <1>11, <2>1, <2>2 DEF S!TypeOK, S!LogoutAnswered, S!store, S!flows, S!Asking, S!Flows,
        S!Replies, S!Nothing, S!Alive, S!Idle, S!ShownSoon, S!Cookies
  <2> QED
    BY <2>1, <2>2
<1>12. ASSUME S!SessionEnds PROVE S!SessionInv'
  <2>1. S!TypeOK'
    <3>1. /\ sessionCalm' \in BOOLEAN /\ cookies' \in S!Cookies
          /\ {hint', isAuthenticated', isInitialized', signOut'} \subseteq BOOLEAN
      BY <1>12 DEF S!TypeOK, S!SessionEnds, S!store, S!flows, S!Cookies
    <3>2. signs' \in 0..MaxSigns /\ ends' \in 0..MaxEnds /\ errors' \in 0..MaxErrors
      BY <1>12, ClientsAssumption DEF S!TypeOK, S!SessionEnds, S!store, S!flows
    <3>3. /\ userLoad' \in S!Flows({"me", "refresh", "meAgain"})
          /\ signIn' \in S!Flows({"me"}) /\ refresh' \in S!Flows({"me"})
      BY <1>12 DEF S!TypeOK, S!SessionEnds, S!store, S!flows, S!Asking, S!Flows, S!Replies,
          S!Nothing
    <3> QED
      BY <3>1, <3>2, <3>3 DEF S!TypeOK
  <2>2. ASSUME sessionCalm' PROVE S!SessionInv'
    BY <1>12, <2>1, <2>2 DEF S!TypeOK, S!SessionEnds, S!store, S!flows, S!Asking, S!Flows,
        S!Replies, S!Nothing, S!Alive, S!Idle, S!ShownSoon, S!Cookies
  <2> QED
    BY <2>1, <2>2
<1> QED
  BY <1>1, <1>2, <1>3, <1>4, <1>5, <1>6, <1>7, <1>8, <1>9, <1>10, <1>11, <1>12 DEF S!Next

\* A user whose session is alive is shown as signed in once loadUser has made up its mind,
\* whenever nothing fails and nothing is under way: whatever the order of the loads, sign-ins,
\* sign-outs, hand-offs, expired cookies and answers before.
THEOREM SignedInIsShownHolds == MCSpec => []SignedInIsShown
<1>1. MCInit => S!SessionInv
  BY InitSession DEF MCInit
<1>2. S!SessionInv /\ [MCNext]_allVars => S!SessionInv'
  BY NextSession, OneMachine
<1>3. S!SessionInv => SignedInIsShown
  BY DEF S!SessionInv, SignedInIsShown, S!SignedInIsShown, S!Idle, S!ShownSoon
<1> QED
  BY <1>1, <1>2, <1>3, PTL DEF MCSpec

-----------------------------------------------------------------------------
(* The price socket. *)

LEMMA InitPrice == P!Init => P!PriceInv
<1> SUFFICES ASSUME P!Init PROVE P!PriceInv
  OBVIOUS
<1>1. P!TypeOK
  <2>1. alone \in BOOLEAN /\ priceTimer \in BOOLEAN
    BY DEF P!Init
  <2>2. /\ reconnectAttempts \in 0..MaxReconnect
        /\ mounts \in 0..MaxMounts /\ failures \in 0..MaxFailures
    BY ClientsAssumption DEF P!Init
  <2> QED
    BY <2>1, <2>2 DEF P!Init, P!TypeOK
<1> QED
  BY <1>1 DEF P!Init, P!PriceInv, P!StatusHonest

LEMMA CloseType ==
    ASSUME P!TypeOK, P!OnClose
    PROVE  /\ priceTimer' \in BOOLEAN /\ reconnectAttempts' \in 0..MaxReconnect
           /\ status' = "disconnected"
<1>1. priceTimer' \in BOOLEAN
  BY DEF P!TypeOK, P!OnClose, P!scheduleReconnect
<1>2. reconnectAttempts' \in 0..MaxReconnect
  BY ClientsAssumption DEF P!TypeOK, P!OnClose, P!scheduleReconnect
<1> QED
  BY <1>1, <1>2 DEF P!OnClose

LEMMA NextPrice == P!PriceInv /\ [P!Next]_priceVars => P!PriceInv'
<1> SUFFICES ASSUME P!PriceInv, P!Next PROVE P!PriceInv'
  <2>1. CASE UNCHANGED priceVars
    BY <2>1 DEF priceVars, P!PriceInv, P!TypeOK, P!StatusHonest
  <2> QED
    BY <2>1
<1> USE DEF P!PriceInv, P!NoSocket
<1>0. 0 \notin P!Slots
  BY ClientsAssumption DEF P!Slots
<1>1. ASSUME P!Mount PROVE P!PriceInv'
  <2>1. P!TypeOK'
    BY <1>1, ClientsAssumption DEF P!TypeOK, P!Mount, P!connect
  <2> QED
    BY <1>0, <1>1, <2>1 DEF P!TypeOK, P!Mount, P!connect, P!StatusHonest
<1>2. ASSUME NEW s \in P!Slots, P!Opened(s) PROVE P!PriceInv'
  <2>1. P!TypeOK'
    BY <1>2, ClientsAssumption DEF P!TypeOK, P!Opened
  <2> QED
    BY <1>0, <1>2, <2>1 DEF P!TypeOK, P!Opened, P!StatusHonest
<1>3. ASSUME NEW s \in P!Slots, P!Closed(s) PROVE P!PriceInv'
  <2>1. P!TypeOK'
    BY <1>3, CloseType DEF P!TypeOK, P!Closed
  <2> QED
    BY <1>0, <1>3, <2>1 DEF P!TypeOK, P!Closed, P!OnClose, P!scheduleReconnect, P!StatusHonest
<1>4. ASSUME P!TimerFires PROVE P!PriceInv'
  <2>1. P!TypeOK'
    BY <1>4, ClientsAssumption DEF P!TypeOK, P!TimerFires, P!connect
  <2> QED
    BY <1>0, <1>4, <2>1 DEF P!TypeOK, P!TimerFires, P!connect, P!StatusHonest
<1>5. ASSUME NEW s \in P!Slots, NEW error \in BOOLEAN, P!Breaks(s, error) PROVE P!PriceInv'
  <2>1. P!TypeOK'
    <3>1. priceTimer' \in BOOLEAN /\ reconnectAttempts' \in 0..MaxReconnect /\ status' = "disconnected"
      BY <1>5, CloseType DEF P!Breaks
    <3>2. failures' \in 0..MaxFailures
      BY <1>5, ClientsAssumption DEF P!TypeOK, P!Breaks
    <3>3. priceSockets' \in [P!Slots -> {"closed", "connecting", "open", "closing"}]
      BY <1>5 DEF P!TypeOK, P!Breaks
    <3> QED
      BY <1>5, <3>1, <3>2, <3>3 DEF P!TypeOK, P!Breaks
  <2> QED
    BY <1>0, <1>5, <2>1 DEF P!TypeOK, P!Breaks, P!OnClose, P!scheduleReconnect, P!StatusHonest
<1> QED
  BY <1>1, <1>2, <1>3, <1>4, <1>5 DEF P!Next, P!AnyOpened, P!AnyClosed

-----------------------------------------------------------------------------
(* The trade socket. *)

LEMMA InitTrade == T!Init => T!TradeInv
<1> SUFFICES ASSUME T!Init PROVE T!TradeInv
  OBVIOUS
<1>1. T!TypeOK
  <2>1. tradePrompt \in BOOLEAN
    BY DEF T!Init
  <2>2. /\ shows \in 0..MaxShows /\ drops \in 0..MaxDrops
        /\ tradeSockets \in [T!Slots -> [acct : Accounts \union {Nobody}, state : T!States]]
        /\ strays \in [Accounts -> Nat]
    BY ClientsAssumption DEF T!Init, T!Free, T!States
  <2> QED
    BY <2>1, <2>2 DEF T!Init, T!TypeOK
<1> QED
  BY <1>1 DEF T!Init, T!TradeInv

\* What a dial, and a close, leave behind.
LEMMA DialType ==
    ASSUME T!TypeOK, NEW a \in Accounts, T!connect(a)
    PROVE  /\ accountId' \in Accounts \union {Nobody}
           /\ tradeWs' \in T!Slots \union {T!NoSocket}
           /\ tradeSockets' \in [T!Slots -> [acct : Accounts \union {Nobody}, state : T!States]]
BY DEF T!TypeOK, T!connect, T!States

LEMMA CloseTradeType ==
    ASSUME T!TypeOK, NEW s \in T!Slots, T!OnClose(s)
    PROVE  /\ tradeTimer' \in Accounts \union {Nobody}
           /\ strays' \in [Accounts -> Nat]
<1>1. tradeTimer' \in Accounts \union {Nobody}
  BY DEF T!TypeOK, T!OnClose
<1>2. strays' \in [Accounts -> Nat]
  BY DEF T!TypeOK, T!OnClose
<1> QED
  BY <1>1, <1>2

LEMMA NextTrade == T!TradeInv /\ [T!Next]_tradeVars => T!TradeInv'
<1> SUFFICES ASSUME T!TradeInv, T!Next PROVE T!TradeInv'
  <2>1. CASE UNCHANGED tradeVars
    BY <2>1 DEF tradeVars, T!TradeInv, T!TypeOK, T!Live
  <2> QED
    BY <2>1
<1> USE DEF T!TradeInv, T!NoSocket
<1>0. 0 \notin T!Slots /\ Nobody \notin Accounts
  BY ClientsAssumption DEF T!Slots
<1>1. ASSUME NEW a \in Accounts, T!Show(a) PROVE T!TradeInv'
  <2>1. T!TypeOK'
    BY <1>1, ClientsAssumption, DialType DEF T!TypeOK, T!Show
  <2> QED
    BY <1>0, <1>1, <2>1 DEF T!TypeOK, T!Show, T!connect, T!Live, T!Free
<1>2. ASSUME NEW a \in Accounts, T!StrayFires(a) PROVE T!TradeInv'
  <2>1. T!TypeOK'
    BY <1>2, DialType DEF T!TypeOK, T!StrayFires
  <2> QED
    BY <1>0, <1>2, <2>1 DEF T!TypeOK, T!StrayFires
<1>3. ASSUME T!disconnect PROVE T!TradeInv'
  <2>1. T!TypeOK'
    BY <1>3 DEF T!TypeOK, T!disconnect, T!States, T!Live
  <2> QED
    BY <1>0, <1>3, <2>1 DEF T!TypeOK, T!disconnect, T!Live, T!Free
<1>4. ASSUME NEW s \in T!Slots, T!Opened(s) PROVE T!TradeInv'
  <2>1. T!TypeOK'
    BY <1>4 DEF T!TypeOK, T!Opened, T!States
  <2> QED
    BY <1>0, <1>4, <2>1 DEF T!TypeOK, T!Opened, T!Live, T!Free
<1>5. ASSUME NEW s \in T!Slots, T!Closed(s) PROVE T!TradeInv'
  <2>1. T!TypeOK'
    BY <1>5, CloseTradeType DEF T!TypeOK, T!Closed, T!Free, T!States
  <2> QED
    BY <1>0, <1>5, <2>1 DEF T!TypeOK, T!Closed, T!OnClose, T!Live, T!Free
<1>6. ASSUME T!TimerFires PROVE T!TradeInv'
  <2>1. T!TypeOK'
    BY <1>6, DialType DEF T!TypeOK, T!TimerFires
  <2> QED
    BY <1>0, <1>6, <2>1 DEF T!TypeOK, T!TimerFires, T!connect, T!Live, T!Free
<1>7. ASSUME NEW s \in T!Slots, NEW error \in BOOLEAN, T!Breaks(s, error) PROVE T!TradeInv'
  <2>1. T!TypeOK'
    <3>1. tradeTimer' \in Accounts \union {Nobody} /\ strays' \in [Accounts -> Nat]
      BY <1>7, CloseTradeType DEF T!Breaks
    <3>2. tradeSockets' \in [T!Slots -> [acct : Accounts \union {Nobody}, state : T!States]]
      BY <1>7 DEF T!TypeOK, T!Breaks, T!States, T!Free
    <3>3. drops' \in 0..MaxDrops
      BY <1>7, ClientsAssumption DEF T!TypeOK, T!Breaks
    <3> QED
      BY <1>7, <3>1, <3>2, <3>3 DEF T!TypeOK, T!Breaks
  <2> QED
    BY <1>0, <1>7, <2>1 DEF T!TypeOK, T!Breaks, T!OnClose, T!Live, T!Free
<1> QED
  BY <1>1, <1>2, <1>3, <1>4, <1>5, <1>6, <1>7 DEF T!Next, T!AnyOpened, T!AnyClosed

LEMMA TradeOnce == T!TradeInv => T!EventsOnce
BY DEF T!TradeInv, T!EventsOnce, T!Listens, T!Live, T!Free

-----------------------------------------------------------------------------
(* The candle socket. *)

LEMMA InitBars == Init => BarsInv
<1> SUFFICES ASSUME Init PROVE BarsInv
  OBVIOUS
<1>1. prompt \in BOOLEAN /\ {reconnectTimer, watchdogTimer, hadConnection, manuallyClosed} \subseteq BOOLEAN
      /\ stalled \in BOOLEAN
  BY DEF Init
<1>2. Cardinality(Charts) \in Nat
  BY BarsAssumption, FS_CardinalityType
<1>3. /\ old \in 0..MaxOld /\ acts \in 0..MaxActs /\ faults \in 0..MaxFaults
      /\ serverSubs \in [Keys -> 0..Cardinality(Charts)]
  BY <1>2, BarsAssumption DEF Init
<1>4. TypeOK
  BY <1>1, <1>3 DEF Init, TypeOK, Sockets
<1>5. ASSUME NEW k \in Keys PROVE serverSubs[k] = Cardinality({c \in Charts : regs[c] = k})
  <2>1. {c \in Charts : regs[c] = k} = {}
    BY BarsAssumption DEF Init
  <2> QED
    BY <2>1, FS_EmptySet DEF Init
<1>6. StreamsWhatIsShown /\ DropsHealed /\ \A c \in Charts : missed[c] # "drop"
  BY DEF Init, StreamsWhatIsShown, DropsHealed, Streams
<1> QED
  BY <1>4, <1>5, <1>6 DEF BarsInv

\* The charts of a key are counted: none exactly when the key is not shown.
LEMMA CountsShown ==
    ASSUME BarsInv, NEW k \in Keys
    PROVE  serverSubs[k] > 0 <=> k \in Shown(regs)
<1> DEFINE D == {c \in Charts : regs[c] = k}
<1>1. IsFiniteSet(D) /\ Cardinality(D) \in Nat
  BY BarsAssumption, FS_Subset, FS_CardinalityType
<1>2. Cardinality(D) = 0 <=> D = {}
  BY <1>1, FS_EmptySet
<1>3. D # {} <=> k \in Shown(regs)
  BY BarsAssumption DEF Shown
<1>4. serverSubs[k] = Cardinality(D)
  BY DEF BarsInv
<1> QED
  BY <1>1, <1>2, <1>3, <1>4

\* A chart comes, or leaves, and its key's count follows.
LEMMA CountsFollow ==
    ASSUME BarsInv, NEW c \in Charts, NEW k \in Keys, NEW j \in Keys,
           \/ /\ regs[c] = NoKey /\ regs' = [regs EXCEPT ![c] = k]
              /\ serverSubs' = [serverSubs EXCEPT ![k] = @ + 1]
           \/ /\ regs[c] = k /\ regs' = [regs EXCEPT ![c] = NoKey]
              /\ serverSubs' = [serverSubs EXCEPT ![k] = @ - 1]
    PROVE  /\ serverSubs'[j] = Cardinality({d \in Charts : regs'[d] = j})
           /\ serverSubs'[j] \in 0..Cardinality(Charts)
           /\ serverSubs'[j] > 0 <=> j \in Shown(regs')
<1> DEFINE D == {d \in Charts : regs[d] = j}
           E == {d \in Charts : regs'[d] = j}
<1>1. /\ IsFiniteSet(D) /\ Cardinality(D) \in Nat
      /\ IsFiniteSet(E) /\ Cardinality(E) \in Nat /\ Cardinality(E) <= Cardinality(Charts)
      /\ Cardinality(Charts) \in Nat
  BY BarsAssumption, FS_Subset, FS_CardinalityType
<1>2. regs \in [Charts -> Keys \union {NoKey}] /\ serverSubs \in [Keys -> 0..Cardinality(Charts)]
  BY DEF BarsInv, TypeOK
<1>3. serverSubs[j] = Cardinality(D)
  BY DEF BarsInv
<1>4. serverSubs'[j] = Cardinality(E)
  <2>1. CASE j # k
    <3>1. E = D
      BY <1>2, <2>1, BarsAssumption
    <3> QED
      BY <1>2, <1>3, <2>1, <3>1
  <2>2. CASE j = k /\ regs[c] = NoKey
    <3>1. E = D \union {c} /\ c \notin D
      BY <1>2, <2>2, BarsAssumption
    <3>2. Cardinality(E) = Cardinality(D) + 1
      BY <1>1, <3>1, FS_AddElement
    <3> QED
      BY <1>1, <1>2, <1>3, <2>2, <3>2, BarsAssumption
  <2>3. CASE j = k /\ regs[c] = k
    <3>1. E = D \ {c} /\ c \in D
      BY <1>2, <2>3, BarsAssumption
    <3>2. Cardinality(E) = Cardinality(D) - 1
      BY <1>1, <3>1, FS_RemoveElement
    <3> QED
      BY <1>1, <1>2, <1>3, <2>3, <3>2, BarsAssumption
  <2> QED
    BY <2>1, <2>2, <2>3
<1>5. Cardinality(E) = 0 <=> E = {}
  BY <1>1, FS_EmptySet
<1>6. E # {} <=> j \in Shown(regs')
  BY BarsAssumption DEF Shown
<1>7. Cardinality(E) > 0 <=> j \in Shown(regs')
  BY <1>1, <1>5, <1>6
<1>8. Cardinality(E) \in 0..Cardinality(Charts)
  BY <1>1
<1> HIDE DEF E
<1>9. /\ serverSubs'[j] \in 0..Cardinality(Charts)
      /\ serverSubs'[j] > 0 <=> j \in Shown(regs')
  BY <1>4, <1>7, <1>8
<1> QED
  BY <1>4, <1>9 DEF E

LEMMA ConnectType ==
    ASSUME TypeOK, connect
    PROVE  /\ ws' \in Sockets /\ old' \in 0..MaxOld
           /\ stalled' \in BOOLEAN /\ manuallyClosed' \in BOOLEAN
<1>1. old' \in 0..MaxOld
  <2>1. CASE ws \in {"connecting", "open"}
    BY <2>1 DEF TypeOK, connect
  <2>2. CASE ws = "closing"
    BY <2>2, BarsAssumption DEF TypeOK, connect
  <2>3. CASE ws \notin {"connecting", "open", "closing"}
    BY <2>3, BarsAssumption DEF TypeOK, connect
  <2> QED
    BY <2>1, <2>2, <2>3
<1>2. ws' \in Sockets
  BY DEF TypeOK, connect, Sockets
<1>3. stalled' \in BOOLEAN /\ manuallyClosed' \in BOOLEAN
  BY DEF TypeOK, connect
<1> QED
  BY <1>1, <1>2, <1>3

LEMMA NextBars == BarsInv /\ [Next]_vars => BarsInv'
<1> SUFFICES ASSUME BarsInv, Next PROVE BarsInv'
  <2>1. CASE UNCHANGED vars
    BY <2>1 DEF vars, linkVars, chartVars, BarsInv, TypeOK, StreamsWhatIsShown, DropsHealed,
        Streams, Shown
  <2> QED
    BY <2>1
<1> USE DEF chartVars
<1>t. TypeOK
  BY DEF BarsInv
\* What becomes of the streams and the holes when charts stay what they are.
<1>0. ASSUME UNCHANGED <<regs, serverSubs>>, TypeOK',
             Streams' => streamed' = Shown(regs),
             Streams' => \A c \in Charts : missed'[c] # "drop",
             \A c \in Charts : missed'[c] = "drop" => hadConnection' /\ regs[c] # NoKey
      PROVE  BarsInv'
  BY <1>0 DEF BarsInv, StreamsWhatIsShown, DropsHealed, Shown
<1>1. ASSUME Opened PROVE BarsInv'
  <2>1. TypeOK'
    <3>1. missed' \in [Charts -> {"nothing", "early", "drop"}]
      BY <1>1, <1>t DEF TypeOK, Opened
    <3> QED
      BY <1>1, <1>t, <3>1 DEF TypeOK, Opened, Sockets
  <2>2. {k \in Keys : serverSubs[k] > 0} = Shown(regs)
    <3>1. Shown(regs) \subseteq Keys
      BY <1>t DEF TypeOK, Shown
    <3> QED
      BY <3>1, CountsShown
  <2> QED
    BY <1>0, <1>1, <2>1, <2>2 DEF Opened, BarsInv
<1>2. ASSUME CurrentCloses PROVE BarsInv'
  <2>1. TypeOK'
    <3>1. faults' \in 0..MaxFaults
      BY <1>2, <1>t, BarsAssumption DEF TypeOK, CurrentCloses
    <3>2. reconnectTimer' \in BOOLEAN /\ watchdogTimer' \in BOOLEAN
      BY <1>2, <1>t DEF TypeOK, CurrentCloses, OnClose
    <3> QED
      BY <1>2, <1>t, <3>1, <3>2 DEF TypeOK, CurrentCloses, Sockets
  <2> QED
    BY <1>0, <1>2, <2>1 DEF CurrentCloses, Streams, BarsInv
<1>3. ASSUME OldCloses PROVE BarsInv'
  <2>1. TypeOK'
    <3>1. old' \in 0..MaxOld
      BY <1>3, <1>t, BarsAssumption DEF TypeOK, OldCloses
    <3>2. reconnectTimer' \in BOOLEAN /\ watchdogTimer' \in BOOLEAN
      BY <1>3, <1>t DEF TypeOK, OldCloses, OnClose
    <3> QED
      BY <1>3, <1>t, <3>1, <3>2 DEF TypeOK, OldCloses
  <2> QED
    BY <1>0, <1>3, <2>1 DEF OldCloses, Streams, BarsInv, StreamsWhatIsShown, DropsHealed
<1>4. ASSUME Stalls PROVE BarsInv'
  <2>1. TypeOK'
    <3>1. faults' \in 0..MaxFaults
      BY <1>4, <1>t, BarsAssumption DEF TypeOK, Stalls
    <3> QED
      BY <1>4, <1>t, <3>1 DEF TypeOK, Stalls
  <2> QED
    BY <1>0, <1>4, <2>1 DEF Stalls, Streams, BarsInv
<1>5. ASSUME WatchdogFires PROVE BarsInv'
  <2>1. TypeOK'
    BY <1>5, <1>t DEF TypeOK, WatchdogFires, Sockets
  <2> QED
    BY <1>0, <1>5, <2>1 DEF WatchdogFires, Streams, BarsInv
<1>6. ASSUME ReconnectFires PROVE BarsInv'
  <2>1. TypeOK'
    BY <1>6, <1>t, ConnectType DEF TypeOK, ReconnectFires
  <2> QED
    BY <1>0, <1>6, <2>1 DEF ReconnectFires, connect, Streams, BarsInv, StreamsWhatIsShown,
        DropsHealed
<1>7. ASSUME Frame PROVE BarsInv'
  <2>1. TypeOK'
    BY <1>7, <1>t DEF TypeOK, Frame
  <2> QED
    BY <1>0, <1>7, <2>1 DEF Frame, Streams, BarsInv, StreamsWhatIsShown, DropsHealed
<1>8. ASSUME NEW k \in Keys, NEW unpolled \in SUBSET Charts, BarCloses(k, unpolled) PROVE BarsInv'
  <2>1. TypeOK'
    <3>1. missed' \in [Charts -> {"nothing", "early", "drop"}]
      BY <1>8, <1>t DEF TypeOK, BarCloses
    <3>2. watchdogTimer' \in BOOLEAN
      BY <1>8, <1>t DEF TypeOK, BarCloses, Streams
    <3> QED
      BY <1>8, <1>t, <3>1, <3>2 DEF TypeOK, BarCloses
  <2>2. ASSUME NEW c \in Charts, missed'[c] # missed[c]
        PROVE  regs[c] = k /\ k \in Shown(regs) /\ ~(Streams /\ k \in streamed) /\ c \in unpolled
               /\ missed'[c] = IF hadConnection THEN "drop" ELSE "early"
    BY <1>8, <2>2, <1>t, BarsAssumption DEF BarCloses, Shown, TypeOK
  <2>3. ~Streams \/ UNCHANGED missed
    <3>1. ASSUME Streams, NEW c \in Charts PROVE missed'[c] = missed[c]
      BY <2>2, <3>1 DEF BarsInv, StreamsWhatIsShown
    <3> QED
      BY <3>1, <2>1, <1>t DEF TypeOK
  <2>4. ASSUME NEW c \in Charts, missed'[c] = "drop" PROVE hadConnection' /\ regs[c] # NoKey
    BY <1>8, <2>2, <2>4, BarsAssumption DEF BarsInv, BarCloses
  <2>5. UNCHANGED <<regs, serverSubs>> /\ (Streams' <=> Streams) /\ streamed' = streamed
    BY <1>8 DEF BarCloses, Streams
  <2> QED
    BY <1>0, <2>1, <2>3, <2>4, <2>5 DEF BarsInv, StreamsWhatIsShown, DropsHealed
<1>9. ASSUME NEW c \in Charts, NEW k \in Keys, subscribe(c, k) PROVE BarsInv'
  <2>1. \A j \in Keys : /\ serverSubs'[j] = Cardinality({d \in Charts : regs'[d] = j})
                        /\ serverSubs'[j] \in 0..Cardinality(Charts)
    BY <1>9, CountsFollow DEF subscribe
  <2>2. TypeOK'
    <3>1. serverSubs' \in [Keys -> 0..Cardinality(Charts)]
      BY <1>9, <1>t, <2>1 DEF TypeOK, subscribe
    <3>2. regs' \in [Charts -> Keys \union {NoKey}] /\ missed' \in [Charts -> {"nothing", "early", "drop"}]
          /\ streamed' \subseteq Keys
      BY <1>9, <1>t DEF TypeOK, subscribe
    <3>3. acts' \in 0..MaxActs
      BY <1>9, <1>t, BarsAssumption DEF TypeOK, subscribe, Acts
    <3> QED
      BY <1>9, <1>t, <3>1, <3>2, <3>3, ConnectType DEF TypeOK, subscribe
  <2>3. Shown(regs') = Shown(regs) \union {k}
    BY <1>9, <1>t, BarsAssumption DEF TypeOK, subscribe, Shown
  <2>4. Streams' <=> Streams
    BY <1>9 DEF subscribe, connect, Streams
  <2>5. ASSUME NEW d \in Charts
        PROVE  missed'[d] = (IF d = c THEN "nothing" ELSE missed[d])
               /\ regs'[d] = (IF d = c THEN k ELSE regs[d])
    BY <1>9, <1>t DEF TypeOK, subscribe
  <2>6. StreamsWhatIsShown'
    BY <1>9, <2>3, <2>4 DEF subscribe, BarsInv, StreamsWhatIsShown
  <2>7. DropsHealed'
    BY <2>4, <2>5 DEF BarsInv, DropsHealed
  <2>8. \A d \in Charts : missed'[d] = "drop" => hadConnection' /\ regs'[d] # NoKey
    BY <1>9, <2>5 DEF BarsInv, subscribe
  <2> QED
    BY <2>1, <2>2, <2>6, <2>7, <2>8 DEF BarsInv
<1>10. ASSUME NEW c \in Charts, unsubscribe(c) PROVE BarsInv'
  <2> DEFINE k == regs[c]
  <2>k. k \in Keys
    BY <1>10, <1>t DEF TypeOK, unsubscribe
  <2>1. \A j \in Keys : /\ serverSubs'[j] = Cardinality({d \in Charts : regs'[d] = j})
                        /\ serverSubs'[j] \in 0..Cardinality(Charts)
                        /\ serverSubs'[j] > 0 <=> j \in Shown(regs')
    BY <1>10, <2>k, CountsFollow DEF unsubscribe
  <2>2. TypeOK'
    <3>1. serverSubs' \in [Keys -> 0..Cardinality(Charts)]
      BY <1>10, <1>t, <2>1 DEF TypeOK, unsubscribe
    <3>2. regs' \in [Charts -> Keys \union {NoKey}] /\ missed' \in [Charts -> {"nothing", "early", "drop"}]
          /\ streamed' \subseteq Keys
      BY <1>10, <1>t DEF TypeOK, unsubscribe, TearDown
    <3>3. acts' \in 0..MaxActs
      BY <1>10, <1>t, BarsAssumption DEF TypeOK, unsubscribe, Acts
    <3>4. old' \in 0..MaxOld
      <4>1. CASE TearDown
        <5>1. CASE ws \in {"connecting", "open", "closing"}
          BY <4>1, <5>1, <1>t, BarsAssumption DEF TypeOK, TearDown
        <5>2. CASE ws \notin {"connecting", "open", "closing"}
          BY <4>1, <5>2, <1>t, BarsAssumption DEF TypeOK, TearDown
        <5> QED
          BY <5>1, <5>2
      <4>2. CASE UNCHANGED old
        BY <4>2, <1>t DEF TypeOK
      <4> QED
        BY <1>10, <4>1, <4>2 DEF unsubscribe
    <3>5. /\ {reconnectTimer', watchdogTimer', hadConnection', manuallyClosed'} \subseteq BOOLEAN
          /\ stalled' \in BOOLEAN /\ prompt' \in BOOLEAN
      BY <1>10, <1>t DEF TypeOK, unsubscribe, TearDown
    <3>6. ws' \in Sockets /\ faults' \in 0..MaxFaults
      BY <1>10, <1>t DEF TypeOK, unsubscribe, TearDown, Sockets
    <3> QED
      BY <3>1, <3>2, <3>3, <3>4, <3>5, <3>6 DEF TypeOK
  <2>3. ASSUME NEW d \in Charts
        PROVE  missed'[d] = (IF d = c THEN "nothing" ELSE missed[d])
               /\ regs'[d] = (IF d = c THEN NoKey ELSE regs[d])
    BY <1>10, <1>t DEF TypeOK, unsubscribe
  <2>4. CASE Shown(regs') = {}
    <3>1. \A d \in Charts : regs'[d] = NoKey
      BY <2>4, <2>2 DEF Shown
    <3>2. \A d \in Charts : missed'[d] # "drop"
      BY <2>3, <3>1 DEF BarsInv
    <3>3. ~Streams'
      BY <1>10, <2>4 DEF unsubscribe, TearDown, Streams
    <3> QED
      BY <2>1, <2>2, <3>2, <3>3 DEF BarsInv, StreamsWhatIsShown, DropsHealed
  <2>5. CASE Shown(regs') # {}
    <3>1. (Streams' <=> Streams) /\ hadConnection' = hadConnection
      BY <1>10, <2>5 DEF unsubscribe, Streams
    <3>2. streamed' = IF Streams /\ serverSubs'[k] = 0 THEN streamed \ {k} ELSE streamed
      BY <1>10, <2>5 DEF unsubscribe
    <3>3. Shown(regs') = IF serverSubs'[k] = 0 THEN Shown(regs) \ {k} ELSE Shown(regs)
      <4>1. Shown(regs') \subseteq Shown(regs) /\ Shown(regs) \subseteq Shown(regs') \union {k}
        BY <2>3, BarsAssumption DEF Shown
      <4>2. serverSubs'[k] = 0 <=> k \notin Shown(regs')
        <5>1. serverSubs'[k] \in Nat /\ (serverSubs'[k] > 0 <=> k \in Shown(regs'))
          <6>1. serverSubs'[k] \in 0..Cardinality(Charts) /\ (serverSubs'[k] > 0 <=> k \in Shown(regs'))
            BY <2>1, <2>k
          <6> QED
            BY <6>1
        <5> HIDE DEF k
        <5> QED
          BY <5>1
      <4> QED
        BY <4>1, <4>2
    <3>4. StreamsWhatIsShown'
      BY <3>1, <3>2, <3>3 DEF BarsInv, StreamsWhatIsShown
    <3>5. DropsHealed' /\ \A d \in Charts : missed'[d] = "drop" => hadConnection' /\ regs'[d] # NoKey
      BY <2>3, <3>1 DEF BarsInv, DropsHealed
    <3> QED
      BY <2>1, <2>2, <3>4, <3>5 DEF BarsInv
  <2> QED
    BY <2>4, <2>5
<1> QED
  BY <1>1, <1>2, <1>3, <1>4, <1>5, <1>6, <1>7, <1>8, <1>9, <1>10 DEF Next

-----------------------------------------------------------------------------
(* The lines of the chart. *)

\* In an instance, Cardinality is a definition of its own.
LEMMA SameCount == ASSUME NEW X PROVE L!Cardinality(X) = Cardinality(X)
BY DEF L!Cardinality, Cardinality

LEMMA NumbersFinite ==
    ASSUME NEW X, IsFiniteSet(X)
    PROVE  IsFiniteSet({c.n : c \in X})
<1> DEFINE f == [c \in X |-> c.n]
<1>1. f \in Surjection(X, {c.n : c \in X})
  BY DEF Surjection
<1> QED
  BY <1>1, FS_Surjection

\* Not all of 1..n + 1 is in a set of n.
LEMMA SomeNumberIsFree ==
    ASSUME NEW X, IsFiniteSet(X)
    PROVE  \E n \in 1..(Cardinality(X) + 1) : n \notin X
<1>1. Cardinality(X) \in Nat
  BY FS_CardinalityType
<1>2. IsFiniteSet(1..(Cardinality(X) + 1)) /\ Cardinality(1..(Cardinality(X) + 1)) = Cardinality(X) + 1
  BY <1>1, FS_Interval
<1> SUFFICES ASSUME 1..(Cardinality(X) + 1) \subseteq X PROVE FALSE
  OBVIOUS
<1>3. Cardinality(1..(Cardinality(X) + 1)) <= Cardinality(X)
  BY FS_Subset
<1> QED
  BY <1>1, <1>2, <1>3

LEMMA KeysFinite == IsFiniteSet(L!LineKeys)
<1>1. IsFiniteSet({"entry", "level"})
  <2>1. IsFiniteSet({"entry"})
    BY FS_Singleton
  <2>2. IsFiniteSet({"entry"} \union {"level"})
    BY <2>1, FS_AddElement
  <2>3. {"entry"} \union {"level"} = {"entry", "level"}
    OBVIOUS
  <2> QED
    BY <2>2, <2>3
<1> QED
  BY <1>1, ClientsAssumption, FS_Product DEF L!LineKeys, L!Positions

\* What is under way and drawn is finite, so a new shape has a number of its own.
ChartInv == L!LinesInv /\ IsFiniteSet(creations)

LEMMA ShapesFinite == ChartInv => IsFiniteSet(shapes)
<1> SUFFICES ASSUME ChartInv PROVE IsFiniteSet(shapes)
  OBVIOUS
<1> DEFINE D == {j \in L!LineKeys : L!Drawn(lines[j])}
           f == [k \in D |-> L!ShapeOf(k, lines[k])]
<1>1. IsFiniteSet(D)
  BY KeysFinite, FS_Subset
<1>2. f \in Surjection(D, shapes)
  BY DEF Surjection, ChartInv, L!LinesInv, L!DrawnAsRecorded
<1> QED
  BY <1>1, <1>2, FS_Surjection

LEMMA NumbersAreNew ==
    ASSUME ChartInv, NEW k \in L!LineKeys
    PROVE  /\ L!NextShape(k) \in Nat \ {0}
           /\ L!NextShape(k) # lines[k].n
           /\ \A c \in creations : c.key = k => c.n # L!NextShape(k)
<1> DEFINE made == {d \in creations \union shapes : d.key = k}
           used == {lines[k].n} \union {c.n : c \in made}
<1>1. IsFiniteSet(creations \union shapes)
  BY ShapesFinite, FS_Union DEF ChartInv
<1>2. IsFiniteSet(made)
  BY <1>1, FS_Subset
<1>3. IsFiniteSet({c.n : c \in made})
  BY <1>2, NumbersFinite
<1>4. IsFiniteSet(used)
  BY <1>3, FS_Singleton, FS_Union
<1>5. \E n \in 1..(Cardinality(used) + 1) : n \notin used
  BY <1>4, SomeNumberIsFree
<1>6. L!NextShape(k) = CHOOSE n \in 1..(Cardinality(used) + 1) : n \notin used
  BY SameCount DEF L!NextShape
<1>7. L!NextShape(k) \in 1..(Cardinality(used) + 1) /\ L!NextShape(k) \notin used
  BY <1>5, <1>6
<1>8. Cardinality(used) \in Nat
  BY <1>4, FS_CardinalityType
<1>9. L!NextShape(k) \in Nat \ {0}
  <2> HIDE DEF used
  <2> QED
    BY <1>7, <1>8
<1> QED
  BY <1>7, <1>9

LEMMA InitLines == L!Init => ChartInv
<1> SUFFICES ASSUME L!Init PROVE ChartInv
  OBVIOUS
<1>1. patient \in BOOLEAN /\ {due, picked, silent, stale} \subseteq BOOLEAN
  BY DEF L!Init
<1>2. changes \in 0..MaxChanges /\ lineFaults \in 0..MaxLineFaults
  BY ClientsAssumption DEF L!Init
<1>3. /\ rows \in [L!Positions -> [entry : {L!Absent, L!OpenPrice}, level : Levels \union {L!Absent}]]
      /\ {selected, charted} \subseteq Symbols
      /\ queued \in Seq(Symbols)
      /\ lines \in [L!LineKeys -> L!Line \union {L!NoLine}]
  BY ClientsAssumption DEF L!Init, L!NoRow, L!Nothing
<1>4. L!TypeOK
  BY <1>1, <1>2, <1>3 DEF L!Init, L!TypeOK
<1>5. L!DrawnAsRecorded
  <2>1. {j \in L!LineKeys : L!Drawn(lines[j])} = {}
    BY DEF L!Init, L!Nothing, L!Drawn
  <2> QED
    BY <2>1 DEF L!DrawnAsRecorded, L!Init
<1> QED
  BY <1>4, <1>5, FS_EmptySet DEF ChartInv, L!LinesInv, L!Init

\* What a line may be, said of its parts.
LEMMA LineIs ==
    ASSUME L!TypeOK, NEW k \in L!LineKeys
    PROVE  \/ lines[k] = L!NoLine /\ lines[k].n = 0
           \/ lines[k] \in L!Line /\ lines[k].n \in Nat \ {0} /\ lines[k] # L!NoLine
BY DEF L!TypeOK, L!Line, L!NoLine

LEMMA DesiredIs ==
    ASSUME L!TypeOK, NEW k \in L!LineKeys, L!Desired(k) # L!Absent
    PROVE  L!Desired(k) \in L!Price
<1>1. k[1] \in L!Positions /\ k[2] \in {"entry", "level"}
  BY DEF L!LineKeys
<1>2. rows[k[1]] \in [entry : {L!Absent, L!OpenPrice}, level : Levels \union {L!Absent}]
  BY <1>1 DEF L!TypeOK
<1>3. rows[k[1]][k[2]] \in Levels \union {L!OpenPrice, L!Absent}
  BY <1>1, <1>2
<1> QED
  BY <1>3 DEF L!Desired, L!Price

\* A step that gives no shape another number or price, and moves nothing between entries and
\* shapes: it may write labels.
LEMMA LabelsOnly ==
    ASSUME ChartInv, L!TypeOK', UNCHANGED <<creations, shapes>>,
           \A k \in L!LineKeys :
              \/ lines'[k] = lines[k]
              \/ /\ lines[k] \in L!Line /\ lines'[k] \in L!Line
                 /\ lines'[k].n = lines[k].n /\ lines'[k].drawn = lines[k].drawn
                 /\ lines'[k].price = lines[k].price
    PROVE  ChartInv'
<1>1. ASSUME NEW k \in L!LineKeys
      PROVE  /\ L!Drawn(lines'[k]) <=> L!Drawn(lines[k])
             /\ L!ShapeOf(k, lines'[k]) = L!ShapeOf(k, lines[k])
             /\ lines'[k].n = lines[k].n /\ lines'[k].drawn = lines[k].drawn
  BY DEF L!Drawn, L!ShapeOf, L!Line, L!NoLine
<1>2. L!DrawnAsRecorded'
  <2>1. shapes = {L!ShapeOf(k, lines[k]) : k \in {j \in L!LineKeys : L!Drawn(lines[j])}}
    BY DEF ChartInv, L!LinesInv, L!DrawnAsRecorded
  <2>2. {L!ShapeOf(k, lines[k]) : k \in {j \in L!LineKeys : L!Drawn(lines[j])}}
          = {L!ShapeOf(k, lines'[k]) : k \in {j \in L!LineKeys : L!Drawn(lines'[j])}}
    BY <1>1
  <2> QED
    BY <2>1, <2>2 DEF L!DrawnAsRecorded, L!ShapeOf, L!Drawn
<1>3. ASSUME NEW c \in creations, lines'[c.key].n = c.n
      PROVE  ~lines'[c.key].drawn /\ c = L!ShapeOf(c.key, lines'[c.key])
  <2>1. c.key \in L!LineKeys
    BY DEF ChartInv, L!LinesInv, L!TypeOK, L!Shape
  <2> QED
    BY <1>1, <1>3, <2>1 DEF ChartInv, L!LinesInv
<1> QED
  BY <1>2, <1>3 DEF ChartInv, L!LinesInv, L!ShapeOf

\* The two uses of Reconcile: on the entries and shapes there are, and on none.
Reconciling(before, drawn) ==
    \/ before = lines /\ drawn = shapes
    \/ before = L!Nothing /\ drawn = L!Others

LEMMA NothingElse == ChartInv => L!Others = {}
BY DEF ChartInv, L!LinesInv, L!DrawnAsRecorded, L!Others, L!ShapeOfEntry, L!ShapeOf, L!Drawn

\* An entry goes, is new, follows its price or waits for its shape.
LEMMA EntryAfter ==
    ASSUME ChartInv, NEW before, NEW drawn, Reconciling(before, drawn), NEW k \in L!LineKeys,
           NEW line, line = L!Reconciled(before)[k]
    PROVE  \/ line = L!NoLine
           \/ /\ before[k] = L!NoLine /\ line \in L!Line /\ ~line.drawn
              /\ line.n = L!NextShape(k)
           \/ /\ before[k] = lines[k] /\ lines[k] \in L!Line /\ lines[k].drawn
              /\ line \in L!Line /\ line.n = lines[k].n /\ line.drawn
           \/ /\ before[k] = lines[k] /\ lines[k] \in L!Line /\ ~lines[k].drawn
              /\ line = lines[k]
<1> USE DEF Reconciling
<1>0. L!TypeOK
  BY DEF ChartInv, L!LinesInv
<1>1. \/ before[k] = L!NoLine
      \/ before[k] = lines[k] /\ lines[k] \in L!Line /\ lines[k] # L!NoLine
  BY <1>0, LineIs DEF L!Nothing
<1>2. line = CASE L!Desired(k) = L!Absent -> L!NoLine
               [] L!Desired(k) # L!Absent /\ before[k] = L!NoLine -> L!Reserved(k)
               [] L!Desired(k) # L!Absent /\ L!Drawn(before[k]) -> L!Refreshed(before[k], L!Desired(k))
               [] OTHER -> before[k]
  BY DEF L!Reconciled
<1>3. CASE L!Desired(k) = L!Absent
  BY <1>2, <1>3 DEF L!Drawn
<1>4. CASE L!Desired(k) # L!Absent /\ before[k] = L!NoLine
  <2>1. line = L!Reserved(k)
    BY <1>2, <1>4 DEF L!Drawn
  <2>2. L!NextShape(k) \in Nat \ {0} /\ L!Desired(k) \in L!Price
    BY <1>0, <1>4, NumbersAreNew, DesiredIs
  <2>3. (k[2] = "entry") \in BOOLEAN
    OBVIOUS
  <2> HIDE DEF Reconciling
  <2>4. L!Reserved(k) \in L!Line /\ ~L!Reserved(k).drawn /\ L!Reserved(k).n = L!NextShape(k)
    BY <2>2, <2>3 DEF L!Reserved, L!Line
  <2> QED
    BY <1>4, <2>1, <2>4
<1>5. CASE L!Desired(k) # L!Absent /\ before[k] # L!NoLine /\ L!Drawn(before[k])
  <2>1. line = L!Refreshed(lines[k], L!Desired(k)) /\ lines[k] \in L!Line /\ lines[k].drawn
    BY <1>1, <1>2, <1>5 DEF L!Drawn
  <2>2. L!Desired(k) \in L!Price
    BY <1>0, <1>5, DesiredIs
  <2>3. line \in L!Line /\ line.n = lines[k].n /\ line.drawn
    BY <2>1, <2>2 DEF L!Refreshed, L!Line
  <2> QED
    BY <1>1, <1>5, <2>1, <2>3
<1>6. CASE L!Desired(k) # L!Absent /\ before[k] # L!NoLine /\ ~L!Drawn(before[k])
  <2>1. line = before[k]
    BY <1>2, <1>6
  <2>2. ~lines[k].drawn
    BY <1>1, <1>6 DEF L!Drawn
  <2> QED
    BY <1>1, <1>6, <2>1, <2>2
<1> QED
  BY <1>3, <1>4, <1>5, <1>6

LEMMA Reconciles ==
    ASSUME ChartInv, NEW before, NEW drawn, Reconciling(before, drawn), L!Reconcile(before, drawn)
    PROVE  /\ lines' \in [L!LineKeys -> L!Line \union {L!NoLine}]
           /\ creations' \subseteq L!Shape /\ IsFiniteSet(creations')
           /\ shapes' \subseteq L!Shape
           /\ L!DrawnAsRecorded'
           /\ \A c \in creations' :
                 lines'[c.key].n = c.n => ~lines'[c.key].drawn /\ c = L!ShapeOf(c.key, lines'[c.key])
<1>0. /\ L!TypeOK
      /\ shapes = {L!ShapeOf(k, lines[k]) : k \in {j \in L!LineKeys : L!Drawn(lines[j])}}
      /\ \A c \in creations :
            lines[c.key].n = c.n => ~lines[c.key].drawn /\ c = L!ShapeOf(c.key, lines[c.key])
  BY DEF ChartInv, L!LinesInv, L!DrawnAsRecorded
<1>1. CASE widget # "ready"
  <2>1. UNCHANGED <<lines, shapes, creations>>
    BY <1>1 DEF L!Reconcile
  <2> QED
    BY <1>0, <2>1 DEF ChartInv, L!TypeOK, L!DrawnAsRecorded, L!Drawn, L!ShapeOf
<1>2. CASE widget = "ready"
  <2> DEFINE after == L!Reconciled(before)
             gone == {s \in drawn : L!ShapeOfEntry(s, before) /\ ~L!ShapeOfEntry(s, after)}
             new == L!NewOf(before, after)
  <2>1. /\ lines' = after
        /\ shapes' = L!Moved(drawn \ gone, after)
        /\ creations' = creations \union new
    BY <1>2 DEF L!Reconcile
  <2>2. ASSUME NEW k \in L!LineKeys
        PROVE  \/ after[k] = L!NoLine
               \/ /\ before[k] = L!NoLine /\ after[k] \in L!Line /\ ~after[k].drawn
                  /\ after[k].n = L!NextShape(k)
               \/ /\ before[k] = lines[k] /\ lines[k] \in L!Line /\ lines[k].drawn
                  /\ after[k] \in L!Line /\ after[k].n = lines[k].n /\ after[k].drawn
               \/ /\ before[k] = lines[k] /\ lines[k] \in L!Line /\ ~lines[k].drawn
                  /\ after[k] = lines[k]
    BY EntryAfter
  <2>3. after \in [L!LineKeys -> L!Line \union {L!NoLine}]
    <3>1. \A k \in L!LineKeys : after[k] \in L!Line \union {L!NoLine}
      BY <2>2
    <3> QED
      BY <3>1 DEF L!Reconciled
  <2> HIDE DEF after
  \* Where the shapes come from.
  <2>4. ASSUME NEW k \in L!LineKeys, L!Drawn(after[k])
        PROVE  /\ before = lines /\ drawn = shapes
               /\ L!Drawn(lines[k]) /\ after[k].n = lines[k].n /\ after[k] \in L!Line
    <3>1. /\ before[k] = lines[k] /\ lines[k] \in L!Line /\ lines[k].drawn
          /\ after[k] \in L!Line /\ after[k].n = lines[k].n
      BY <2>2, <2>4 DEF L!Drawn
    <3>2. lines[k] # L!NoLine
      BY <3>1 DEF L!Line, L!NoLine
    <3>3. before # L!Nothing
      BY <3>1, <3>2 DEF L!Nothing
    <3> QED
      BY <3>1, <3>2, <3>3 DEF Reconciling, L!Drawn
  <2>5. shapes' = {L!ShapeOf(k, after[k]) : k \in {j \in L!LineKeys : L!Drawn(after[j])}}
    <3>1. CASE before = lines /\ drawn = shapes
      <4>1. ASSUME NEW s \in shapes
            PROVE  /\ s.key \in L!LineKeys /\ s = L!ShapeOf(s.key, lines[s.key])
                   /\ L!ShapeOfEntry(s, before)
        BY <1>0, <3>1 DEF L!ShapeOf, L!ShapeOfEntry
      <4>2. drawn \ gone = {s \in shapes : L!ShapeOfEntry(s, after)}
        BY <3>1, <4>1
      <4>3. ASSUME NEW s \in shapes'
            PROVE  s \in {L!ShapeOf(k, after[k]) : k \in {j \in L!LineKeys : L!Drawn(after[j])}}
        <5>1. PICK d \in shapes : L!ShapeOfEntry(d, after) /\ s = L!ShapeOf(d.key, after[d.key])
          BY <2>1, <4>2, <4>3 DEF L!Moved
        <5>2. d.key \in L!LineKeys /\ L!Drawn(after[d.key])
          BY <4>1, <5>1 DEF L!ShapeOfEntry
        <5> QED
          BY <5>1, <5>2
      <4>4. ASSUME NEW k \in L!LineKeys, L!Drawn(after[k])
            PROVE  L!ShapeOf(k, after[k]) \in shapes'
        <5>1. L!Drawn(lines[k]) /\ after[k].n = lines[k].n
          BY <2>4, <4>4
        <5> DEFINE d == L!ShapeOf(k, lines[k])
        <5>2. d \in shapes /\ d.key = k /\ d.n = lines[k].n
          BY <1>0, <5>1 DEF L!ShapeOf
        <5>3. L!ShapeOfEntry(d, after)
          BY <4>4, <5>1, <5>2 DEF L!ShapeOfEntry
        <5> HIDE DEF d
        <5>4. L!ShapeOf(d.key, after[d.key]) \in shapes'
          BY <2>1, <4>2, <5>2, <5>3 DEF L!Moved
        <5> QED
          BY <5>2, <5>4
      <4> QED
        BY <4>3, <4>4
    <3>2. CASE before = L!Nothing /\ drawn = L!Others
      <4>1. drawn = {} /\ shapes' = {}
        BY <2>1, <3>2, NothingElse DEF L!Moved
      <4>2. \A k \in L!LineKeys : ~L!Drawn(after[k])
        <5> SUFFICES ASSUME NEW k \in L!LineKeys, L!Drawn(after[k]) PROVE FALSE
          OBVIOUS
        <5>1. before[k] = L!NoLine /\ lines[k] = before[k] /\ L!Drawn(lines[k])
          BY <2>4, <3>2 DEF L!Nothing
        <5> QED
          BY <5>1 DEF L!Drawn
      <4> QED
        BY <4>1, <4>2
    <3> QED
      BY <3>1, <3>2 DEF Reconciling
  <2>6. L!DrawnAsRecorded'
    BY <2>1, <2>5 DEF L!DrawnAsRecorded, L!ShapeOf, L!Drawn
  <2>7. shapes' \subseteq L!Shape
    BY <2>4, <2>5 DEF L!ShapeOf, L!Shape, L!Line
  <2>8. ASSUME NEW c \in new
        PROVE  /\ c \in L!Shape /\ c.key \in L!LineKeys /\ ~after[c.key].drawn
               /\ c = L!ShapeOf(c.key, after[c.key])
    <3>1. PICK k \in L!LineKeys : before[k] = L!NoLine /\ after[k] # L!NoLine /\ c = L!ShapeOf(k, after[k])
      BY DEF L!NewOf
    <3>2. after[k] \in L!Line /\ ~after[k].drawn
      BY <2>2, <3>1 DEF L!Line, L!NoLine
    <3> QED
      BY <3>1, <3>2 DEF L!ShapeOf, L!Shape, L!Line
  <2>9. creations' \subseteq L!Shape /\ IsFiniteSet(creations')
    <3>1. IsFiniteSet(new)
      <4> DEFINE N == {j \in L!LineKeys : before[j] = L!NoLine /\ after[j] # L!NoLine}
                 f == [k \in N |-> L!ShapeOf(k, after[k])]
      <4>1. IsFiniteSet(N)
        BY KeysFinite, FS_Subset
      <4>2. f \in Surjection(N, new)
        BY DEF Surjection, L!NewOf
      <4> QED
        BY <4>1, <4>2, FS_Surjection
    <3> HIDE DEF new
    <3>2. IsFiniteSet(creations) /\ creations \subseteq L!Shape
      BY <1>0 DEF ChartInv, L!TypeOK
    <3> QED
      BY <2>1, <2>8, <3>1, <3>2, FS_Union
  <2>10. ASSUME NEW c \in creations', after[c.key].n = c.n
         PROVE  ~after[c.key].drawn /\ c = L!ShapeOf(c.key, after[c.key])
    <3>1. CASE c \in new
      BY <2>8, <3>1
    <3>2. CASE c \in creations
      <4>1. c.key \in L!LineKeys /\ c.n \in Nat \ {0}
        BY <1>0, <3>2 DEF L!TypeOK, L!Shape
      <4>2. after[c.key] # L!NoLine
        BY <2>10, <4>1 DEF L!NoLine
      <4>3. c.n # L!NextShape(c.key)
        BY <3>2, <4>1, NumbersAreNew
      <4>4. lines[c.key].n = c.n
        BY <2>2, <2>10, <4>1, <4>2, <4>3
      <4>5. ~lines[c.key].drawn /\ c = L!ShapeOf(c.key, lines[c.key])
        BY <1>0, <3>2, <4>4
      <4>6. after[c.key] = lines[c.key]
        BY <2>2, <2>10, <4>1, <4>2, <4>3, <4>5
      <4> QED
        BY <4>5, <4>6
    <3> QED
      BY <2>1, <3>1, <3>2
  <2> QED
    BY <2>1, <2>3, <2>6, <2>7, <2>9, <2>10
<1> QED
  BY <1>1, <1>2

\* Steps that touch neither entries nor shapes.
Aside ==
    \/ L!Mount \/ L!LibraryLoads \/ L!LibraryFails \/ L!Build \/ L!ChartReady \/ L!Poll
    \/ L!GoesSilent
    \/ \E s \in Symbols : L!Select(s)
    \/ \E p \in L!Positions : L!ListChanges(p)

LEMMA AsideType ==
    ASSUME L!TypeOK, Aside
    PROVE  L!TypeOK' /\ UNCHANGED <<lines, creations, shapes>>
<1>1. CASE L!Mount
  <2>1. lineFaults' \in 0..MaxLineFaults
    BY <1>1, ClientsAssumption DEF L!TypeOK, L!Mount, L!Fault
  <2>2. {due', picked', silent', stale'} \subseteq BOOLEAN
    BY <1>1 DEF L!TypeOK, L!Mount
  <2> QED
    BY <1>1, <2>1, <2>2 DEF L!TypeOK, L!Mount
<1>2. CASE L!LibraryLoads
  <2>1. lineFaults' \in 0..MaxLineFaults
    BY <1>2, ClientsAssumption DEF L!TypeOK, L!LibraryLoads, L!Fault
  <2>2. {due', picked', silent', stale'} \subseteq BOOLEAN
    BY <1>2 DEF L!TypeOK, L!LibraryLoads
  <2> QED
    BY <1>2, <2>1, <2>2 DEF L!TypeOK, L!LibraryLoads
<1>3. CASE L!LibraryFails
  <2>1. lineFaults' \in 0..MaxLineFaults
    BY <1>3, ClientsAssumption DEF L!TypeOK, L!LibraryFails, L!Fault
  <2>2. {due', picked', silent', stale'} \subseteq BOOLEAN
    BY <1>3 DEF L!TypeOK, L!LibraryFails
  <2> QED
    BY <1>3, <2>1, <2>2 DEF L!TypeOK, L!LibraryFails
<1>4. CASE L!Build
  <2>1. lineFaults' \in 0..MaxLineFaults
    BY <1>4, ClientsAssumption DEF L!TypeOK, L!Build, L!Fault
  <2>2. {due', picked', silent', stale'} \subseteq BOOLEAN
    BY <1>4 DEF L!TypeOK, L!Build
  <2> QED
    BY <1>4, <2>1, <2>2 DEF L!TypeOK, L!Build
<1>5. CASE L!ChartReady
  <2>1. lineFaults' \in 0..MaxLineFaults
    BY <1>5, ClientsAssumption DEF L!TypeOK, L!ChartReady, L!Fault
  <2>2. {due', picked', silent', stale'} \subseteq BOOLEAN
    BY <1>5 DEF L!TypeOK, L!ChartReady
  <2> QED
    BY <1>5, <2>1, <2>2 DEF L!TypeOK, L!ChartReady
<1>6. CASE L!Poll
  <2>1. lineFaults' \in 0..MaxLineFaults
    BY <1>6, ClientsAssumption DEF L!TypeOK, L!Poll, L!Fault
  <2>2. {due', picked', silent', stale'} \subseteq BOOLEAN
    BY <1>6 DEF L!TypeOK, L!Poll
  <2> QED
    BY <1>6, <2>1, <2>2 DEF L!TypeOK, L!Poll
<1>7. CASE L!GoesSilent
  <2>1. lineFaults' \in 0..MaxLineFaults
    BY <1>7, ClientsAssumption DEF L!TypeOK, L!GoesSilent, L!Fault
  <2>2. {due', picked', silent', stale'} \subseteq BOOLEAN
    BY <1>7 DEF L!TypeOK, L!GoesSilent
  <2> QED
    BY <1>7, <2>1, <2>2 DEF L!TypeOK, L!GoesSilent
<1>8. ASSUME NEW s \in Symbols, L!Select(s) PROVE L!TypeOK' /\ UNCHANGED <<lines, creations, shapes>>
  <2>1. changes' \in 0..MaxChanges
    BY <1>8, ClientsAssumption DEF L!TypeOK, L!Select, L!Acts
  <2>2. {due', picked', silent', stale'} \subseteq BOOLEAN
    BY <1>8 DEF L!TypeOK, L!Select
  <2> QED
    BY <1>8, <2>1, <2>2 DEF L!TypeOK, L!Select
<1>9. ASSUME NEW p \in L!Positions, L!ListChanges(p)
      PROVE  L!TypeOK' /\ UNCHANGED <<lines, creations, shapes>>
  <2>1. changes' \in 0..MaxChanges
    BY <1>9, ClientsAssumption DEF L!TypeOK, L!ListChanges, L!Acts
  <2>2. {due', picked', silent', stale'} \subseteq BOOLEAN
    BY <1>9 DEF L!TypeOK, L!ListChanges
  <2>3. rows' \in [L!Positions -> [entry : {L!Absent, L!OpenPrice}, level : Levels \union {L!Absent}]]
    BY <1>9 DEF L!TypeOK, L!ListChanges, L!NoRow
  <2> QED
    BY <1>9, <2>1, <2>2, <2>3 DEF L!TypeOK, L!ListChanges
<1> QED
  BY <1>1, <1>2, <1>3, <1>4, <1>5, <1>6, <1>7, <1>8, <1>9 DEF Aside

LEMMA AsideKeeps == ASSUME ChartInv, Aside PROVE ChartInv'
<1>1. L!TypeOK
  BY DEF ChartInv, L!LinesInv
<1>2. L!TypeOK' /\ UNCHANGED <<lines, creations, shapes>>
  BY <1>1, AsideType
<1> QED
  BY <1>2, LabelsOnly

\* Steps that write labels.
LEMMA LabelsKeep ==
    ASSUME ChartInv, L!Tick \/ L!WatchdogFires \/ L!ThrottlePasses
    PROVE  ChartInv'
<1>0. L!TypeOK
  BY DEF ChartInv, L!LinesInv
<1>1. UNCHANGED <<creations, shapes>>
  BY DEF L!Tick, L!WatchdogFires, L!ThrottlePasses
<1>2. ASSUME NEW k \in L!LineKeys
      PROVE  \/ lines'[k] = lines[k]
             \/ /\ lines[k] \in L!Line /\ lines'[k] \in L!Line
                /\ lines'[k].n = lines[k].n /\ lines'[k].drawn = lines[k].drawn
                /\ lines'[k].price = lines[k].price
  <2>1. lines[k] = L!NoLine \/ lines[k] \in L!Line
    BY <1>0, LineIs
  <2>2. lines \in [L!LineKeys -> L!Line \union {L!NoLine}]
    BY <1>0 DEF L!TypeOK
  <2>3. CASE L!Tick
    BY <2>1, <2>2, <2>3 DEF L!Tick, L!Line
  <2>4. CASE L!WatchdogFires
    BY <2>1, <2>2, <2>4 DEF L!WatchdogFires, L!Line, L!Drawn
  <2>5. CASE L!ThrottlePasses
    <3>1. PICK j \in L!LineKeys : lines[j] # L!NoLine /\ lines' = [lines EXCEPT ![j].fresh = FALSE]
      BY <2>5 DEF L!ThrottlePasses
    <3> QED
      BY <2>1, <2>2, <3>1 DEF L!Line
  <2> QED
    BY <2>3, <2>4, <2>5
<1>3. lines' \in [L!LineKeys -> L!Line \union {L!NoLine}]
  <2>1. \A k \in L!LineKeys : lines'[k] \in L!Line \union {L!NoLine}
    BY <1>0, <1>2 DEF L!TypeOK
  <2>2. lines' = [k \in L!LineKeys |-> lines'[k]]
    BY <1>0 DEF L!Tick, L!WatchdogFires, L!ThrottlePasses, L!TypeOK
  <2> QED
    BY <2>1, <2>2
<1>4. {due', picked', silent', stale'} \subseteq BOOLEAN
  BY <1>0 DEF L!TypeOK, L!Tick, L!WatchdogFires, L!ThrottlePasses
<1>5. L!TypeOK'
  BY <1>0, <1>3, <1>4 DEF L!TypeOK, L!Tick, L!WatchdogFires, L!ThrottlePasses
<1> QED
  BY <1>1, <1>2, <1>5, LabelsOnly

\* A shape is created, or not.
LEMMA CreationEnds ==
    ASSUME ChartInv, NEW c \in creations, L!Created(c) \/ L!CreateFails(c)
    PROVE  ChartInv'
<1>0. /\ L!TypeOK /\ c \in L!Shape /\ c.key \in L!LineKeys /\ c.n # 0
      /\ creations' = creations \ {c} /\ creations' \subseteq L!Shape /\ IsFiniteSet(creations')
  <2>1. creations' = creations \ {c}
    BY DEF L!Created, L!CreateFails
  <2>2. IsFiniteSet(creations')
    BY <2>1, FS_RemoveElement DEF ChartInv
  <2> QED
    BY <2>1, <2>2 DEF ChartInv, L!LinesInv, L!TypeOK, L!Shape
<1>l. lines \in [L!LineKeys -> L!Line \union {L!NoLine}]
  BY <1>0 DEF L!TypeOK
<1>1. \A d \in creations :
         lines[d.key].n = d.n => ~lines[d.key].drawn /\ d = L!ShapeOf(d.key, lines[d.key])
  BY DEF ChartInv, L!LinesInv
<1>2. shapes = {L!ShapeOf(k, lines[k]) : k \in {j \in L!LineKeys : L!Drawn(lines[j])}}
  BY DEF ChartInv, L!LinesInv, L!DrawnAsRecorded
<1>3. /\ lineFaults' \in 0..MaxLineFaults
      /\ UNCHANGED <<patient, rows, selected, loader, widget, charted, queued, due, picked, silent,
                     stale, changes>>
  BY <1>0, ClientsAssumption DEF L!Created, L!CreateFails, L!Fault, L!TypeOK
<1>4. CASE lines[c.key].n # c.n
  <2>1. UNCHANGED <<lines, shapes>>
    BY <1>4 DEF L!Created, L!CreateFails
  <2>2. L!TypeOK'
    BY <1>0, <1>3, <2>1 DEF L!TypeOK
  <2> QED
    BY <1>0, <1>1, <1>2, <2>1, <2>2 DEF ChartInv, L!LinesInv, L!DrawnAsRecorded, L!Drawn,
        L!ShapeOf
<1>5. CASE lines[c.key].n = c.n
  <2>1. /\ lines[c.key] \in L!Line /\ lines[c.key] # L!NoLine
        /\ ~lines[c.key].drawn /\ c = L!ShapeOf(c.key, lines[c.key])
    BY <1>0, <1>1, <1>5, LineIs
  <2>2. CASE L!Created(c)
    <3>1. lines' = [lines EXCEPT ![c.key].drawn = TRUE] /\ shapes' = shapes \union {c}
      BY <1>5, <2>2 DEF L!Created
    <3>2. ASSUME NEW k \in L!LineKeys, k # c.key PROVE lines'[k] = lines[k]
      BY <1>l, <3>1, <3>2
    <3>3. /\ lines'[c.key] \in L!Line /\ lines'[c.key].drawn /\ lines'[c.key].n = lines[c.key].n
          /\ lines'[c.key].price = lines[c.key].price /\ lines'[c.key] # L!NoLine
      BY <1>0, <1>l, <2>1, <3>1 DEF L!Line, L!NoLine
    <3>4. L!TypeOK'
      <4>1. lines' \in [L!LineKeys -> L!Line \union {L!NoLine}]
        BY <1>l, <3>1, <3>2, <3>3
      <4> QED
        BY <1>0, <1>3, <3>1, <4>1 DEF L!TypeOK
    <3>5. shapes' = {L!ShapeOf(k, lines'[k]) : k \in {j \in L!LineKeys : L!Drawn(lines'[j])}}
      <4>1. c = L!ShapeOf(c.key, lines'[c.key]) /\ L!Drawn(lines'[c.key])
        BY <2>1, <3>3 DEF L!ShapeOf, L!Drawn
      <4>2. {j \in L!LineKeys : L!Drawn(lines'[j])}
              = {j \in L!LineKeys : L!Drawn(lines[j])} \union {c.key}
        BY <1>0, <3>2, <4>1 DEF L!Drawn
      <4>3. ~L!Drawn(lines[c.key])
        BY <2>1 DEF L!Drawn
      <4>4. ASSUME NEW k \in {j \in L!LineKeys : L!Drawn(lines[j])}
            PROVE  L!ShapeOf(k, lines'[k]) = L!ShapeOf(k, lines[k])
        BY <3>2, <4>3 DEF L!ShapeOf
      <4> QED
        BY <1>2, <3>1, <4>1, <4>2, <4>4
    <3>6. ASSUME NEW d \in creations', lines'[d.key].n = d.n
          PROVE  ~lines'[d.key].drawn /\ d = L!ShapeOf(d.key, lines'[d.key])
      <4>1. d \in creations /\ d # c /\ d.key \in L!LineKeys
        BY <1>0 DEF L!TypeOK, L!Shape
      <4>2. d.key # c.key
        <5> SUFFICES ASSUME d.key = c.key PROVE FALSE
          OBVIOUS
        <5>1. d = L!ShapeOf(c.key, lines[c.key])
          BY <1>1, <3>3, <3>6, <4>1
        <5> QED
          BY <2>1, <4>1, <5>1
      <4> QED
        BY <1>1, <3>2, <3>6, <4>1, <4>2
    <3> QED
      BY <1>0, <3>4, <3>5, <3>6 DEF ChartInv, L!LinesInv, L!DrawnAsRecorded, L!Drawn, L!ShapeOf
  <2>3. CASE L!CreateFails(c)
    <3>1. lines' = [lines EXCEPT ![c.key] = L!NoLine] /\ shapes' = shapes
      BY <1>5, <2>3 DEF L!CreateFails
    <3>2. ASSUME NEW k \in L!LineKeys, k # c.key PROVE lines'[k] = lines[k]
      BY <1>l, <3>1, <3>2
    <3>3. lines'[c.key] = L!NoLine
      BY <1>0, <1>l, <3>1
    <3>4. L!TypeOK'
      <4>1. lines' \in [L!LineKeys -> L!Line \union {L!NoLine}]
        BY <1>l, <3>1, <3>2, <3>3
      <4> QED
        BY <1>0, <1>3, <3>1, <4>1 DEF L!TypeOK
    <3>5. shapes' = {L!ShapeOf(k, lines'[k]) : k \in {j \in L!LineKeys : L!Drawn(lines'[j])}}
      <4>1. ~L!Drawn(lines[c.key]) /\ ~L!Drawn(lines'[c.key])
        BY <2>1, <3>3 DEF L!Drawn
      <4>2. {j \in L!LineKeys : L!Drawn(lines'[j])} = {j \in L!LineKeys : L!Drawn(lines[j])}
        BY <3>2, <4>1
      <4>3. ASSUME NEW k \in {j \in L!LineKeys : L!Drawn(lines[j])}
            PROVE  L!ShapeOf(k, lines'[k]) = L!ShapeOf(k, lines[k])
        BY <3>2, <4>1
      <4> QED
        BY <1>2, <3>1, <4>2, <4>3
    <3>6. ASSUME NEW d \in creations', lines'[d.key].n = d.n
          PROVE  ~lines'[d.key].drawn /\ d = L!ShapeOf(d.key, lines'[d.key])
      <4>1. d \in creations /\ d.key \in L!LineKeys /\ d.n # 0
        BY <1>0 DEF L!TypeOK, L!Shape
      <4>2. d.key # c.key
        BY <3>3, <3>6, <4>1 DEF L!NoLine
      <4> QED
        BY <1>1, <3>2, <3>6, <4>1, <4>2
    <3> QED
      BY <1>0, <3>4, <3>5, <3>6 DEF ChartInv, L!LinesInv, L!DrawnAsRecorded, L!Drawn, L!ShapeOf
  <2> QED
    BY <2>2, <2>3
<1> QED
  BY <1>4, <1>5

\* The chart goes, or a switch of the symbol takes every line with it.
LEMMA ClearedKeeps ==
    ASSUME ChartInv, L!Leave \/ L!CallbackRuns
    PROVE  ChartInv'
<1>0. L!TypeOK
  BY DEF ChartInv, L!LinesInv
<1>1. lines' = L!Nothing /\ shapes' = {} /\ creations' \subseteq creations
  BY NothingElse DEF L!Leave, L!CallbackRuns
<1>2. IsFiniteSet(creations')
  BY <1>1, FS_Subset DEF ChartInv
<1>3. L!TypeOK'
  <2>1. {due', picked', silent', stale'} \subseteq BOOLEAN
    BY <1>0 DEF L!TypeOK, L!Leave, L!CallbackRuns
  <2>2. queued' \in Seq(Symbols) /\ charted' \in Symbols
    <3>1. CASE L!Leave
      BY <1>0, <3>1 DEF L!TypeOK, L!Leave
    <3>2. CASE L!CallbackRuns
      BY <1>0, <3>2, HeadTailProperties DEF L!TypeOK, L!CallbackRuns
    <3> QED
      BY <3>1, <3>2
  <2>3. lines' \in [L!LineKeys -> L!Line \union {L!NoLine}]
    BY <1>1 DEF L!Nothing
  <2>4. widget' \in {"away", "loading", "built", "ready", "failed"}
    BY <1>0 DEF L!TypeOK, L!Leave, L!CallbackRuns
  <2>5. UNCHANGED <<patient, rows, selected, loader, changes, lineFaults>>
    BY DEF L!Leave, L!CallbackRuns
  <2> QED
    BY <1>0, <1>1, <2>1, <2>2, <2>3, <2>4, <2>5 DEF L!TypeOK
<1>4. L!DrawnAsRecorded'
  <2>1. \A k \in L!LineKeys : ~L!Drawn(lines'[k])
    BY <1>1 DEF L!Drawn, L!Nothing
  <2> QED
    BY <1>1, <2>1 DEF L!DrawnAsRecorded, L!Drawn
<1>5. \A c \in creations' : lines'[c.key].n # c.n
  BY <1>0, <1>1 DEF L!Nothing, L!NoLine, L!TypeOK, L!Shape
<1> QED
  BY <1>2, <1>3, <1>4, <1>5 DEF ChartInv, L!LinesInv

LEMMA EffectsKeep == ASSUME ChartInv, L!Effects PROVE ChartInv'
<1>0. L!TypeOK
  BY DEF ChartInv, L!LinesInv
<1>1. /\ L!Reconcile(lines, shapes) \/ L!Reconcile(L!Nothing, L!Others)
      /\ queued' = queued \/ queued' = Append(queued, selected)
      /\ charted' \in {charted, selected}
  BY DEF L!Effects, L!Switch
<1>2. /\ lines' \in [L!LineKeys -> L!Line \union {L!NoLine}]
      /\ creations' \subseteq L!Shape /\ IsFiniteSet(creations')
      /\ shapes' \subseteq L!Shape
      /\ L!DrawnAsRecorded'
      /\ \A c \in creations' :
            lines'[c.key].n = c.n => ~lines'[c.key].drawn /\ c = L!ShapeOf(c.key, lines'[c.key])
  <2>1. Reconciling(lines, shapes) /\ Reconciling(L!Nothing, L!Others)
    BY DEF Reconciling
  <2> QED
    BY <1>1, <2>1, Reconciles
<1>3. L!TypeOK'
  <2>1. {due', picked', silent', stale'} \subseteq BOOLEAN
    BY <1>0 DEF L!TypeOK, L!Effects
  <2>2. queued' \in Seq(Symbols) /\ charted' \in Symbols
    BY <1>0, <1>1, AppendProperties DEF L!TypeOK
  <2>3. UNCHANGED <<patient, rows, selected, loader, widget, changes, lineFaults>>
    BY DEF L!Effects
  <2> QED
    BY <1>0, <1>2, <2>1, <2>2, <2>3 DEF L!TypeOK
<1> QED
  BY <1>2, <1>3 DEF ChartInv, L!LinesInv, L!ShapeOf

LEMMA NextLines == ChartInv /\ [L!Next]_lineVars => ChartInv'
<1> SUFFICES ASSUME ChartInv, [L!Next]_lineVars PROVE ChartInv'
  OBVIOUS
<1>1. CASE UNCHANGED lineVars
  <2>1. L!TypeOK' /\ UNCHANGED <<lines, creations, shapes>>
    BY <1>1 DEF lineVars, L!TypeOK, ChartInv, L!LinesInv
  <2> QED
    BY <2>1, LabelsOnly
<1>2. CASE Aside
  BY <1>2, AsideKeeps
<1>3. CASE L!Tick \/ L!WatchdogFires \/ L!ThrottlePasses
  BY <1>3, LabelsKeep
<1>4. ASSUME NEW c \in creations, L!Created(c) \/ L!CreateFails(c) PROVE ChartInv'
  BY <1>4, CreationEnds
<1>5. CASE L!Leave \/ L!CallbackRuns
  BY <1>5, ClearedKeeps
<1>6. CASE L!Effects
  BY <1>6, EffectsKeep
<1> QED
  BY <1>1, <1>2, <1>3, <1>4, <1>5, <1>6 DEF L!Next, L!AnyCreated, Aside

-----------------------------------------------------------------------------
(* The account of the terminal. *)

AnswersType(u) ==
    /\ DOMAIN u = A!Kinds
    /\ u["orders"] \subseteq SUBSET Orders
    /\ u["account"] \subseteq Accounts
    /\ u["history"] \subseteq Accounts

LEMMA PendingIs == ASSUME NEW a PROVE A!Pending(a) \subseteq Orders
BY DEF A!Pending

\* What is asked for is asked for one account, of the kinds given.
LEMMA AskedIs ==
    ASSUME NEW u, AnswersType(u), NEW kinds, NEW a \in Accounts \union {Nobody}
    PROVE  /\ AnswersType(A!Asked(u, kinds, a))
           /\ A!Asked(u, kinds, a)["account"] \subseteq u["account"] \union ({a} \ {Nobody})
           /\ "account" \notin kinds => A!Asked(u, kinds, a)["account"] = u["account"]
<1> DEFINE v == A!Asked(u, kinds, a)
<1>1. DOMAIN v = A!Kinds
  BY DEF A!Asked
<1>2. v["orders"] \subseteq u["orders"] \union {A!Pending(a)}
  BY DEF A!Asked, A!Kinds, A!Answer
<1>3. /\ v["account"] \subseteq u["account"] \union ({a} \ {Nobody})
      /\ "account" \notin kinds => v["account"] = u["account"]
  BY DEF A!Asked, A!Kinds, A!Answer
<1>4. v["history"] \subseteq u["history"] \union ({a} \ {Nobody})
  BY DEF A!Asked, A!Kinds, A!Answer
<1> HIDE DEF v
<1>5. AnswersType(v)
  BY <1>1, <1>2, <1>3, <1>4, PendingIs DEF AnswersType
<1> QED
  BY <1>3, <1>5 DEF v

LEMMA DeliveredIs ==
    ASSUME AnswersType(answers), NEW kind \in A!Kinds, NEW r
    PROVE  /\ AnswersType(A!Delivered(kind, r))
           /\ A!Delivered(kind, r)["account"] \subseteq answers["account"]
BY DEF AnswersType, A!Delivered, A!Kinds

\* The history panel asks for closed trades only.
LEMMA FollowIs ==
    ASSUME NEW u, AnswersType(u), activeAccount' \in Accounts \union {Nobody},
           historyTrades \in Accounts \union {Nobody}, A!FollowActive(u)
    PROVE  /\ AnswersType(answers') /\ answers'["account"] = u["account"]
           /\ historyTrades' \in Accounts \union {Nobody}
<1>1. CASE activeAccount' = activeAccount
  BY <1>1 DEF A!FollowActive
<1>2. CASE activeAccount' # activeAccount
  <2>1. answers' = A!Asked(u, {"history"}, activeAccount') /\ historyTrades' = Nobody
    BY <1>2 DEF A!FollowActive
  <2>2. AnswersType(A!Asked(u, {"history"}, activeAccount'))
        /\ A!Asked(u, {"history"}, activeAccount')["account"] = u["account"]
    BY AskedIs
  <2> QED
    BY <2>1, <2>2
<1> QED
  BY <1>1, <1>2

\* The type invariant, with what A!TypeOK says of the answers.
LEMMA AccountTypes ==
    A!TypeOK /\ DOMAIN answers = A!Kinds <=>
        /\ AnswersType(answers)
        /\ {accountCalm, accounts, bootstrapping} \subseteq BOOLEAN
        /\ {accountQueryId, activeAccount, historyTrades} \subseteq Accounts \union {Nobody}
        /\ visits \in 0..MaxVisits /\ clicks \in 0..MaxClicks
        /\ load \subseteq SUBSET Orders /\ pendingOrders \subseteq Orders
        /\ requests \subseteq A!Requests
        /\ orders \in [Orders -> [acct : Accounts \union {Nobody}, status : A!Statuses]]
BY DEF A!TypeOK, AnswersType

LEMMA InitAccount == A!Init => A!AccountInv
<1> SUFFICES ASSUME A!Init PROVE A!AccountInv
  OBVIOUS
<1>1. {accountCalm, accounts, bootstrapping} \subseteq BOOLEAN
  BY DEF A!Init
<1>2. visits \in 0..MaxVisits /\ clicks \in 0..MaxClicks
  BY ClientsAssumption DEF A!Init
<1>3. /\ AnswersType(answers)
      /\ orders \in [Orders -> [acct : Accounts \union {Nobody}, status : A!Statuses]]
  BY DEF A!Init, AnswersType, A!Kinds, A!Statuses
<1>4. A!TypeOK /\ DOMAIN answers = A!Kinds
  BY <1>1, <1>2, <1>3, AccountTypes DEF A!Init
<1>5. answers.account = {} /\ requests = {} /\ activeAccount = Nobody /\ accountQueryId = Nobody
  BY DEF A!Init, A!Kinds
<1> QED
  BY <1>4, <1>5 DEF A!AccountInv

LEMMA NextAccount == A!AccountInv /\ [A!Next]_accountVars => A!AccountInv'
<1> SUFFICES ASSUME A!AccountInv, A!Next PROVE A!AccountInv'
  <2>1. CASE UNCHANGED accountVars
    BY <2>1 DEF accountVars, A!AccountInv, A!TypeOK
  <2> QED
    BY <2>1
<1>t. /\ AnswersType(answers)
      /\ {accountCalm, accounts, bootstrapping} \subseteq BOOLEAN
      /\ {accountQueryId, activeAccount, historyTrades} \subseteq Accounts \union {Nobody}
      /\ visits \in 0..MaxVisits /\ clicks \in 0..MaxClicks
      /\ load \subseteq SUBSET Orders /\ pendingOrders \subseteq Orders
      /\ requests \subseteq A!Requests
      /\ orders \in [Orders -> [acct : Accounts \union {Nobody}, status : A!Statuses]]
  BY AccountTypes DEF A!AccountInv
<1>c. accountCalm =>
        /\ ~accounts \/ accountQueryId = Nobody => answers["account"] = {} /\ requests = {}
        /\ ~accounts => activeAccount = Nobody
        /\ accountQueryId # Nobody => activeAccount \in {accountQueryId, Nobody}
        /\ answers["account"] \subseteq {accountQueryId}
        /\ \A p \in requests : p.acct = accountQueryId
  BY DEF A!AccountInv
<1>1. ASSUME NEW a \in Accounts, A!OpenFromAccounts(a)
      PROVE  A!AccountInv'
  <2>1. AnswersType(answers') /\ answers'["account"] = answers["account"]
    BY <1>1, <1>t, AskedIs DEF A!OpenFromAccounts, A!Ask
  <2>2. {accountCalm', accounts', bootstrapping'} \subseteq BOOLEAN
    BY <1>1, <1>t DEF A!OpenFromAccounts, A!Opens, A!ShowAccount, A!pageVars, A!storeVars,
        A!userVars
  <2>3. {accountQueryId', activeAccount', historyTrades'} \subseteq Accounts \union {Nobody}
    BY <1>1, <1>t, <2>1 DEF A!OpenFromAccounts, A!Opens, A!ShowAccount, A!pageVars, A!storeVars,
        A!userVars
  <2>4. visits' \in 0..MaxVisits /\ clicks' \in 0..MaxClicks
    BY <1>1, <1>t, ClientsAssumption DEF A!OpenFromAccounts, A!Opens, A!ShowAccount, A!pageVars,
        A!storeVars, A!userVars
  <2>5. load' \subseteq SUBSET Orders /\ pendingOrders' \subseteq Orders
    BY <1>1, <1>t, PendingIs DEF A!OpenFromAccounts, A!Opens, A!ShowAccount, A!pageVars,
        A!storeVars, A!userVars, A!ShowAccount, AnswersType
  <2>6. requests' \subseteq A!Requests
    BY <1>1, <1>t DEF A!OpenFromAccounts, A!Opens, A!ShowAccount, A!pageVars, A!storeVars,
        A!userVars, A!Requests, A!Becomes
  <2>7. orders' \in [Orders -> [acct : Accounts \union {Nobody}, status : A!Statuses]]
    BY <1>1, <1>t DEF A!OpenFromAccounts, A!Opens, A!ShowAccount, A!pageVars, A!storeVars,
        A!userVars, A!Statuses
  <2>8. A!TypeOK' /\ DOMAIN answers' = A!Kinds
    BY <2>1, <2>2, <2>3, <2>4, <2>5, <2>6, <2>7 DEF A!TypeOK, AnswersType
  <2> QED
    BY <1>1, <1>c, <1>t, <2>1, <2>8, ClientsAssumption DEF A!AccountInv, A!OpenFromAccounts,
        A!Opens, A!ShowAccount, A!pageVars, A!storeVars, A!userVars, A!ShowAccount
<1>2. ASSUME NEW a \in Accounts, A!OpenFromLink(a)
      PROVE  A!AccountInv'
  <2>1. AnswersType(answers') /\ answers'["account"] = answers["account"]
    <3>1. activeAccount' \in Accounts \union {Nobody}
      BY <1>2, <1>t DEF A!OpenFromLink, A!ShowAccount
    <3> QED
      BY <1>2, <1>t, <3>1, AskedIs DEF A!OpenFromLink, A!Ask
  <2>2. {accountCalm', accounts', bootstrapping'} \subseteq BOOLEAN
    BY <1>2, <1>t DEF A!OpenFromLink, A!Opens, A!ShowAccount, A!pageVars, A!storeVars, A!userVars
  <2>3. {accountQueryId', activeAccount', historyTrades'} \subseteq Accounts \union {Nobody}
    BY <1>2, <1>t, <2>1 DEF A!OpenFromLink, A!Opens, A!ShowAccount, A!pageVars, A!storeVars,
        A!userVars
  <2>4. visits' \in 0..MaxVisits /\ clicks' \in 0..MaxClicks
    BY <1>2, <1>t, ClientsAssumption DEF A!OpenFromLink, A!Opens, A!ShowAccount, A!pageVars,
        A!storeVars, A!userVars
  <2>5. load' \subseteq SUBSET Orders /\ pendingOrders' \subseteq Orders
    BY <1>2, <1>t, PendingIs DEF A!OpenFromLink, A!Opens, A!ShowAccount, A!pageVars,
        A!storeVars, A!userVars, A!ShowAccount, AnswersType
  <2>6. requests' \subseteq A!Requests
    BY <1>2, <1>t DEF A!OpenFromLink, A!Opens, A!ShowAccount, A!pageVars, A!storeVars,
        A!userVars, A!Requests, A!Becomes
  <2>7. orders' \in [Orders -> [acct : Accounts \union {Nobody}, status : A!Statuses]]
    BY <1>2, <1>t DEF A!OpenFromLink, A!Opens, A!ShowAccount, A!pageVars, A!storeVars,
        A!userVars, A!Statuses
  <2>8. A!TypeOK' /\ DOMAIN answers' = A!Kinds
    BY <2>1, <2>2, <2>3, <2>4, <2>5, <2>6, <2>7 DEF A!TypeOK, AnswersType
  <2> QED
    BY <1>2, <1>c, <1>t, <2>1, <2>8, ClientsAssumption DEF A!AccountInv, A!OpenFromLink,
        A!Opens, A!ShowAccount, A!pageVars, A!storeVars, A!userVars, A!ShowAccount
<1>3. ASSUME A!Leave
      PROVE  A!AccountInv'
  <2>1. AnswersType(answers') /\ answers'["account"] = answers["account"]
    BY <1>3, <1>t DEF A!Leave, AnswersType, A!Kinds
  <2>2. {accountCalm', accounts', bootstrapping'} \subseteq BOOLEAN
    BY <1>3, <1>t DEF A!Leave, A!pageVars, A!storeVars, A!userVars
  <2>3. {accountQueryId', activeAccount', historyTrades'} \subseteq Accounts \union {Nobody}
    BY <1>3, <1>t, <2>1 DEF A!Leave, A!pageVars, A!storeVars, A!userVars
  <2>4. visits' \in 0..MaxVisits /\ clicks' \in 0..MaxClicks
    BY <1>3, <1>t, ClientsAssumption DEF A!Leave, A!pageVars, A!storeVars, A!userVars
  <2>5. load' \subseteq SUBSET Orders /\ pendingOrders' \subseteq Orders
    BY <1>3, <1>t, PendingIs DEF A!Leave, A!pageVars, A!storeVars, A!userVars, A!ShowAccount,
        AnswersType
  <2>6. requests' \subseteq A!Requests
    BY <1>3, <1>t DEF A!Leave, A!pageVars, A!storeVars, A!userVars, A!Requests, A!Becomes
  <2>7. orders' \in [Orders -> [acct : Accounts \union {Nobody}, status : A!Statuses]]
    BY <1>3, <1>t DEF A!Leave, A!pageVars, A!storeVars, A!userVars, A!Statuses
  <2>8. A!TypeOK' /\ DOMAIN answers' = A!Kinds
    BY <2>1, <2>2, <2>3, <2>4, <2>5, <2>6, <2>7 DEF A!TypeOK, AnswersType
  <2> QED
    BY <1>3, <1>c, <1>t, <2>1, <2>8, ClientsAssumption DEF A!AccountInv, A!Leave, A!pageVars,
        A!storeVars, A!userVars, A!ShowAccount
<1>4. ASSUME NEW known \in BOOLEAN, A!BootstrapAnswered(known)
      PROVE  A!AccountInv'
  <2>1. /\ AnswersType(answers') /\ answers'["account"] = answers["account"]
        /\ activeAccount' \in Accounts \union {Nobody}
        /\ historyTrades' \in Accounts \union {Nobody}
    <3>1. activeAccount' \in Accounts \union {Nobody}
      BY <1>4, <1>t DEF A!BootstrapAnswered, A!ShowAccount
    <3> QED
      BY <1>4, <1>t, <3>1, FollowIs DEF A!BootstrapAnswered
  <2>2. {accountCalm', accounts', bootstrapping'} \subseteq BOOLEAN
    BY <1>4, <1>t DEF A!BootstrapAnswered, A!pageVars, A!storeVars, A!userVars
  <2>3. {accountQueryId', activeAccount', historyTrades'} \subseteq Accounts \union {Nobody}
    BY <1>4, <1>t, <2>1 DEF A!BootstrapAnswered, A!pageVars, A!storeVars, A!userVars
  <2>4. visits' \in 0..MaxVisits /\ clicks' \in 0..MaxClicks
    BY <1>4, <1>t, ClientsAssumption DEF A!BootstrapAnswered, A!pageVars, A!storeVars, A!userVars
  <2>5. load' \subseteq SUBSET Orders /\ pendingOrders' \subseteq Orders
    BY <1>4, <1>t, PendingIs DEF A!BootstrapAnswered, A!pageVars, A!storeVars, A!userVars,
        A!ShowAccount, AnswersType
  <2>6. requests' \subseteq A!Requests
    BY <1>4, <1>t DEF A!BootstrapAnswered, A!pageVars, A!storeVars, A!userVars, A!Requests,
        A!Becomes
  <2>7. orders' \in [Orders -> [acct : Accounts \union {Nobody}, status : A!Statuses]]
    BY <1>4, <1>t DEF A!BootstrapAnswered, A!pageVars, A!storeVars, A!userVars, A!Statuses
  <2>8. A!TypeOK' /\ DOMAIN answers' = A!Kinds
    BY <2>1, <2>2, <2>3, <2>4, <2>5, <2>6, <2>7 DEF A!TypeOK, AnswersType
  <2> QED
    BY <1>4, <1>c, <1>t, <2>1, <2>8, ClientsAssumption DEF A!AccountInv, A!BootstrapAnswered,
        A!pageVars, A!storeVars, A!userVars, A!ShowAccount
<1>5. ASSUME NEW got \in BOOLEAN, A!LoadAnswered(got)
      PROVE  A!AccountInv'
  <2>1. AnswersType(answers') /\ answers'["account"] = answers["account"]
    BY <1>5, <1>t DEF A!LoadAnswered
  <2>2. {accountCalm', accounts', bootstrapping'} \subseteq BOOLEAN
    BY <1>5, <1>t DEF A!LoadAnswered, A!pageVars, A!storeVars, A!userVars
  <2>3. {accountQueryId', activeAccount', historyTrades'} \subseteq Accounts \union {Nobody}
    BY <1>5, <1>t, <2>1 DEF A!LoadAnswered, A!pageVars, A!storeVars, A!userVars
  <2>4. visits' \in 0..MaxVisits /\ clicks' \in 0..MaxClicks
    BY <1>5, <1>t, ClientsAssumption DEF A!LoadAnswered, A!pageVars, A!storeVars, A!userVars
  <2>5. load' \subseteq SUBSET Orders /\ pendingOrders' \subseteq Orders
    BY <1>5, <1>t, PendingIs DEF A!LoadAnswered, A!pageVars, A!storeVars, A!userVars,
        A!ShowAccount, AnswersType
  <2>6. requests' \subseteq A!Requests
    BY <1>5, <1>t DEF A!LoadAnswered, A!pageVars, A!storeVars, A!userVars, A!Requests, A!Becomes
  <2>7. orders' \in [Orders -> [acct : Accounts \union {Nobody}, status : A!Statuses]]
    BY <1>5, <1>t DEF A!LoadAnswered, A!pageVars, A!storeVars, A!userVars, A!Statuses
  <2>8. A!TypeOK' /\ DOMAIN answers' = A!Kinds
    BY <2>1, <2>2, <2>3, <2>4, <2>5, <2>6, <2>7 DEF A!TypeOK, AnswersType
  <2> QED
    BY <1>5, <1>c, <1>t, <2>1, <2>8, ClientsAssumption DEF A!AccountInv, A!LoadAnswered,
        A!pageVars, A!storeVars, A!userVars, A!ShowAccount
<1>6. ASSUME NEW kind \in A!Kinds, A!Poll(kind)
      PROVE  A!AccountInv'
  <2>1. /\ AnswersType(answers')
        /\ answers'["account"] \subseteq answers["account"] \union ({activeAccount} \ {Nobody})
    BY <1>6, <1>t, AskedIs DEF A!Poll, A!Ask
  <2>2. {accountCalm', accounts', bootstrapping'} \subseteq BOOLEAN
    BY <1>6, <1>t DEF A!Poll, A!pageVars, A!storeVars, A!userVars
  <2>3. {accountQueryId', activeAccount', historyTrades'} \subseteq Accounts \union {Nobody}
    BY <1>6, <1>t, <2>1 DEF A!Poll, A!pageVars, A!storeVars, A!userVars
  <2>4. visits' \in 0..MaxVisits /\ clicks' \in 0..MaxClicks
    BY <1>6, <1>t, ClientsAssumption DEF A!Poll, A!pageVars, A!storeVars, A!userVars
  <2>5. load' \subseteq SUBSET Orders /\ pendingOrders' \subseteq Orders
    BY <1>6, <1>t, PendingIs DEF A!Poll, A!pageVars, A!storeVars, A!userVars, A!ShowAccount,
        AnswersType
  <2>6. requests' \subseteq A!Requests
    BY <1>6, <1>t DEF A!Poll, A!pageVars, A!storeVars, A!userVars, A!Requests, A!Becomes
  <2>7. orders' \in [Orders -> [acct : Accounts \union {Nobody}, status : A!Statuses]]
    BY <1>6, <1>t DEF A!Poll, A!pageVars, A!storeVars, A!userVars, A!Statuses
  <2>8. A!TypeOK' /\ DOMAIN answers' = A!Kinds
    BY <2>1, <2>2, <2>3, <2>4, <2>5, <2>6, <2>7 DEF A!TypeOK, AnswersType
  <2> QED
    BY <1>6, <1>c, <1>t, <2>1, <2>8, ClientsAssumption DEF A!AccountInv, A!Poll, A!pageVars,
        A!storeVars, A!userVars, A!ShowAccount
<1>7. ASSUME NEW ids \in answers["orders"], A!OrdersAnswered(ids)
      PROVE  A!AccountInv'
  <2>1. AnswersType(answers') /\ answers'["account"] \subseteq answers["account"]
    BY <1>7, <1>t, DeliveredIs DEF A!OrdersAnswered, A!Kinds
  <2>2. {accountCalm', accounts', bootstrapping'} \subseteq BOOLEAN
    BY <1>7, <1>t DEF A!OrdersAnswered, A!pageVars, A!storeVars, A!userVars
  <2>3. {accountQueryId', activeAccount', historyTrades'} \subseteq Accounts \union {Nobody}
    BY <1>7, <1>t, <2>1 DEF A!OrdersAnswered, A!pageVars, A!storeVars, A!userVars
  <2>4. visits' \in 0..MaxVisits /\ clicks' \in 0..MaxClicks
    BY <1>7, <1>t, ClientsAssumption DEF A!OrdersAnswered, A!pageVars, A!storeVars, A!userVars
  <2>5. load' \subseteq SUBSET Orders /\ pendingOrders' \subseteq Orders
    BY <1>7, <1>t, PendingIs DEF A!OrdersAnswered, A!pageVars, A!storeVars, A!userVars,
        A!ShowAccount, AnswersType
  <2>6. requests' \subseteq A!Requests
    BY <1>7, <1>t DEF A!OrdersAnswered, A!pageVars, A!storeVars, A!userVars, A!Requests, A!Becomes
  <2>7. orders' \in [Orders -> [acct : Accounts \union {Nobody}, status : A!Statuses]]
    BY <1>7, <1>t DEF A!OrdersAnswered, A!pageVars, A!storeVars, A!userVars, A!Statuses
  <2>8. A!TypeOK' /\ DOMAIN answers' = A!Kinds
    BY <2>1, <2>2, <2>3, <2>4, <2>5, <2>6, <2>7 DEF A!TypeOK, AnswersType
  <2> QED
    BY <1>7, <1>c, <1>t, <2>1, <2>8, ClientsAssumption DEF A!AccountInv, A!OrdersAnswered,
        A!pageVars, A!storeVars, A!userVars, A!ShowAccount
<1>8. ASSUME NEW a \in answers["history"], A!HistoryAnswered(a)
      PROVE  A!AccountInv'
  <2>1. AnswersType(answers') /\ answers'["account"] \subseteq answers["account"] /\ a \in Accounts
    BY <1>8, <1>t, DeliveredIs DEF A!HistoryAnswered, A!Kinds, AnswersType
  <2>2. {accountCalm', accounts', bootstrapping'} \subseteq BOOLEAN
    BY <1>8, <1>t DEF A!HistoryAnswered, A!pageVars, A!storeVars, A!userVars
  <2>3. {accountQueryId', activeAccount', historyTrades'} \subseteq Accounts \union {Nobody}
    BY <1>8, <1>t, <2>1 DEF A!HistoryAnswered, A!pageVars, A!storeVars, A!userVars
  <2>4. visits' \in 0..MaxVisits /\ clicks' \in 0..MaxClicks
    BY <1>8, <1>t, ClientsAssumption DEF A!HistoryAnswered, A!pageVars, A!storeVars, A!userVars
  <2>5. load' \subseteq SUBSET Orders /\ pendingOrders' \subseteq Orders
    BY <1>8, <1>t, PendingIs DEF A!HistoryAnswered, A!pageVars, A!storeVars, A!userVars,
        A!ShowAccount, AnswersType
  <2>6. requests' \subseteq A!Requests
    BY <1>8, <1>t DEF A!HistoryAnswered, A!pageVars, A!storeVars, A!userVars, A!Requests,
        A!Becomes
  <2>7. orders' \in [Orders -> [acct : Accounts \union {Nobody}, status : A!Statuses]]
    BY <1>8, <1>t DEF A!HistoryAnswered, A!pageVars, A!storeVars, A!userVars, A!Statuses
  <2>8. A!TypeOK' /\ DOMAIN answers' = A!Kinds
    BY <2>1, <2>2, <2>3, <2>4, <2>5, <2>6, <2>7 DEF A!TypeOK, AnswersType
  <2> QED
    BY <1>8, <1>c, <1>t, <2>1, <2>8, ClientsAssumption DEF A!AccountInv, A!HistoryAnswered,
        A!pageVars, A!storeVars, A!userVars, A!ShowAccount
<1>9. ASSUME NEW a \in answers["account"], A!AccountAnswered(a)
      PROVE  A!AccountInv'
  <2>1. /\ AnswersType(answers') /\ answers'["account"] \subseteq answers["account"] /\ a \in Accounts
        /\ historyTrades' \in Accounts \union {Nobody}
    <3>1. a \in Accounts /\ activeAccount' \in Accounts \union {Nobody}
      BY <1>9, <1>t DEF A!AccountAnswered, AnswersType
    <3>2. AnswersType(A!Delivered("account", a)) /\ A!Delivered("account", a)["account"] \subseteq answers["account"]
      BY <1>t, DeliveredIs DEF A!Kinds
    <3> QED
      BY <1>9, <1>t, <3>1, <3>2, FollowIs DEF A!AccountAnswered
  <2>2. {accountCalm', accounts', bootstrapping'} \subseteq BOOLEAN
    BY <1>9, <1>t DEF A!AccountAnswered, A!pageVars, A!storeVars, A!userVars
  <2>3. {accountQueryId', activeAccount', historyTrades'} \subseteq Accounts \union {Nobody}
    BY <1>9, <1>t, <2>1 DEF A!AccountAnswered, A!pageVars, A!storeVars, A!userVars
  <2>4. visits' \in 0..MaxVisits /\ clicks' \in 0..MaxClicks
    BY <1>9, <1>t, ClientsAssumption DEF A!AccountAnswered, A!pageVars, A!storeVars, A!userVars
  <2>5. load' \subseteq SUBSET Orders /\ pendingOrders' \subseteq Orders
    BY <1>9, <1>t, PendingIs DEF A!AccountAnswered, A!pageVars, A!storeVars, A!userVars,
        A!ShowAccount, AnswersType
  <2>6. requests' \subseteq A!Requests
    BY <1>9, <1>t DEF A!AccountAnswered, A!pageVars, A!storeVars, A!userVars, A!Requests,
        A!Becomes
  <2>7. orders' \in [Orders -> [acct : Accounts \union {Nobody}, status : A!Statuses]]
    BY <1>9, <1>t DEF A!AccountAnswered, A!pageVars, A!storeVars, A!userVars, A!Statuses
  <2>8. A!TypeOK' /\ DOMAIN answers' = A!Kinds
    BY <2>1, <2>2, <2>3, <2>4, <2>5, <2>6, <2>7 DEF A!TypeOK, AnswersType
  <2> QED
    BY <1>9, <1>c, <1>t, <2>1, <2>8, ClientsAssumption DEF A!AccountInv, A!AccountAnswered,
        A!pageVars, A!storeVars, A!userVars, A!ShowAccount
<1>10. ASSUME NEW kind \in A!Kinds, NEW r \in answers[kind], A!AnswerLost(kind, r)
      PROVE  A!AccountInv'
  <2>1. AnswersType(answers') /\ answers'["account"] \subseteq answers["account"]
    BY <1>10, <1>t, DeliveredIs DEF A!AnswerLost
  <2>2. {accountCalm', accounts', bootstrapping'} \subseteq BOOLEAN
    BY <1>10, <1>t DEF A!AnswerLost, A!pageVars, A!storeVars, A!userVars
  <2>3. {accountQueryId', activeAccount', historyTrades'} \subseteq Accounts \union {Nobody}
    BY <1>10, <1>t, <2>1 DEF A!AnswerLost, A!pageVars, A!storeVars, A!userVars
  <2>4. visits' \in 0..MaxVisits /\ clicks' \in 0..MaxClicks
    BY <1>10, <1>t, ClientsAssumption DEF A!AnswerLost, A!pageVars, A!storeVars, A!userVars
  <2>5. load' \subseteq SUBSET Orders /\ pendingOrders' \subseteq Orders
    BY <1>10, <1>t, PendingIs DEF A!AnswerLost, A!pageVars, A!storeVars, A!userVars,
        A!ShowAccount, AnswersType
  <2>6. requests' \subseteq A!Requests
    BY <1>10, <1>t DEF A!AnswerLost, A!pageVars, A!storeVars, A!userVars, A!Requests, A!Becomes
  <2>7. orders' \in [Orders -> [acct : Accounts \union {Nobody}, status : A!Statuses]]
    BY <1>10, <1>t DEF A!AnswerLost, A!pageVars, A!storeVars, A!userVars, A!Statuses
  <2>8. A!TypeOK' /\ DOMAIN answers' = A!Kinds
    BY <2>1, <2>2, <2>3, <2>4, <2>5, <2>6, <2>7 DEF A!TypeOK, AnswersType
  <2> QED
    BY <1>10, <1>c, <1>t, <2>1, <2>8, ClientsAssumption DEF A!AccountInv, A!AnswerLost,
        A!pageVars, A!storeVars, A!userVars, A!ShowAccount
<1>11. ASSUME NEW kind \in {"place", "panelPlace", "market", "leverage", "cancel"}, NEW o \in Orders \union {Nobody},
             A!Click(kind, o)
      PROVE  A!AccountInv'
  <2>1. AnswersType(answers') /\ answers'["account"] = answers["account"]
    BY <1>11, <1>t DEF A!Click
  <2>2. {accountCalm', accounts', bootstrapping'} \subseteq BOOLEAN
    BY <1>11, <1>t DEF A!Click, A!pageVars, A!storeVars, A!userVars
  <2>3. {accountQueryId', activeAccount', historyTrades'} \subseteq Accounts \union {Nobody}
    BY <1>11, <1>t, <2>1 DEF A!Click, A!pageVars, A!storeVars, A!userVars
  <2>4. visits' \in 0..MaxVisits /\ clicks' \in 0..MaxClicks
    BY <1>11, <1>t, ClientsAssumption DEF A!Click, A!pageVars, A!storeVars, A!userVars
  <2>5. load' \subseteq SUBSET Orders /\ pendingOrders' \subseteq Orders
    BY <1>11, <1>t, PendingIs DEF A!Click, A!pageVars, A!storeVars, A!userVars, A!ShowAccount,
        AnswersType
  <2>6. requests' \subseteq A!Requests
    BY <1>11, <1>t DEF A!Click, A!pageVars, A!storeVars, A!userVars, A!Requests, A!Becomes
  <2>7. orders' \in [Orders -> [acct : Accounts \union {Nobody}, status : A!Statuses]]
    BY <1>11, <1>t DEF A!Click, A!pageVars, A!storeVars, A!userVars, A!Statuses
  <2>8. A!TypeOK' /\ DOMAIN answers' = A!Kinds
    BY <2>1, <2>2, <2>3, <2>4, <2>5, <2>6, <2>7 DEF A!TypeOK, AnswersType
  <2> QED
    BY <1>11, <1>c, <1>t, <2>1, <2>8, ClientsAssumption DEF A!AccountInv, A!Click, A!pageVars,
        A!storeVars, A!userVars, A!ShowAccount
<1>12. ASSUME NEW p \in requests, A!Accept(p)
      PROVE  A!AccountInv'
  <2>1. AnswersType(answers') /\ answers'["account"] = answers["account"]
    BY <1>12, <1>t DEF A!Accept
  <2>2. {accountCalm', accounts', bootstrapping'} \subseteq BOOLEAN
    BY <1>12, <1>t DEF A!Accept, A!Becomes, A!pageVars, A!storeVars, A!userVars
  <2>3. {accountQueryId', activeAccount', historyTrades'} \subseteq Accounts \union {Nobody}
    BY <1>12, <1>t, <2>1 DEF A!Accept, A!Becomes, A!pageVars, A!storeVars, A!userVars
  <2>4. visits' \in 0..MaxVisits /\ clicks' \in 0..MaxClicks
    BY <1>12, <1>t, ClientsAssumption DEF A!Accept, A!Becomes, A!pageVars, A!storeVars, A!userVars
  <2>5. load' \subseteq SUBSET Orders /\ pendingOrders' \subseteq Orders
    BY <1>12, <1>t, PendingIs DEF A!Accept, A!Becomes, A!pageVars, A!storeVars, A!userVars,
        A!ShowAccount, AnswersType
  <2>6. requests' \subseteq A!Requests
    BY <1>12, <1>t DEF A!Accept, A!Becomes, A!pageVars, A!storeVars, A!userVars, A!Requests,
        A!Becomes
  <2>7. orders' \in [Orders -> [acct : Accounts \union {Nobody}, status : A!Statuses]]
    <3>1. p.acct \in Accounts /\ p.order \in Orders \union {Nobody}
      BY <1>t DEF A!Requests
    <3>2. ASSUME NEW o \in Orders,
                 orders' = [orders EXCEPT ![o] = [acct |-> p.acct, status |-> "pending"]]
          PROVE  orders' \in [Orders -> [acct : Accounts \union {Nobody}, status : A!Statuses]]
      BY <3>1, <3>2, <1>t DEF A!Statuses
    <3>3. CASE orders' = [orders EXCEPT ![p.order].status = "gone"]
      <4> DEFINE Order == [acct : Accounts \union {Nobody}, status : A!Statuses]
      <4>1. ASSUME NEW x \in Orders PROVE orders'[x] \in Order
        BY <3>3, <1>t DEF A!Statuses
      <4>2. orders' \in [Orders -> Order]
        BY <3>3, <4>1, <1>t
      <4> QED
        BY <4>2
    <3> QED
      BY <1>12, <3>2, <3>3, <1>t DEF A!Accept
  <2>8. A!TypeOK' /\ DOMAIN answers' = A!Kinds
    BY <2>1, <2>2, <2>3, <2>4, <2>5, <2>6, <2>7 DEF A!TypeOK, AnswersType
  <2>9. \A q \in requests' : q \in requests \/ q.acct = p.acct
    BY <1>12, <1>t DEF A!Accept, A!Becomes, A!Requests
  <2>10. UNCHANGED <<accountCalm, accountQueryId, accounts, activeAccount>>
    BY <1>12 DEF A!Accept, A!pageVars, A!storeVars
  <2> QED
    BY <1>c, <2>1, <2>8, <2>9, <2>10 DEF A!AccountInv
<1>13. ASSUME NEW p \in requests, A!Refuse(p)
      PROVE  A!AccountInv'
  <2>1. AnswersType(answers') /\ answers'["account"] = answers["account"]
    BY <1>13, <1>t DEF A!Refuse
  <2>2. {accountCalm', accounts', bootstrapping'} \subseteq BOOLEAN
    BY <1>13, <1>t DEF A!Refuse, A!Becomes, A!pageVars, A!storeVars, A!userVars
  <2>3. {accountQueryId', activeAccount', historyTrades'} \subseteq Accounts \union {Nobody}
    BY <1>13, <1>t, <2>1 DEF A!Refuse, A!Becomes, A!pageVars, A!storeVars, A!userVars
  <2>4. visits' \in 0..MaxVisits /\ clicks' \in 0..MaxClicks
    BY <1>13, <1>t, ClientsAssumption DEF A!Refuse, A!Becomes, A!pageVars, A!storeVars, A!userVars
  <2>5. load' \subseteq SUBSET Orders /\ pendingOrders' \subseteq Orders
    BY <1>13, <1>t, PendingIs DEF A!Refuse, A!Becomes, A!pageVars, A!storeVars, A!userVars,
        A!ShowAccount, AnswersType
  <2>6. requests' \subseteq A!Requests
    BY <1>13, <1>t DEF A!Refuse, A!Becomes, A!pageVars, A!storeVars, A!userVars, A!Requests,
        A!Becomes
  <2>7. orders' \in [Orders -> [acct : Accounts \union {Nobody}, status : A!Statuses]]
    BY <1>13, <1>t DEF A!Refuse, A!Becomes, A!pageVars, A!storeVars, A!userVars, A!Statuses
  <2>8. A!TypeOK' /\ DOMAIN answers' = A!Kinds
    BY <2>1, <2>2, <2>3, <2>4, <2>5, <2>6, <2>7 DEF A!TypeOK, AnswersType
  <2>9. \A q \in requests' : q \in requests \/ q.acct = p.acct
    BY <1>13, <1>t DEF A!Refuse, A!Becomes, A!Requests
  <2>10. UNCHANGED <<accountCalm, accountQueryId, accounts, activeAccount>>
    BY <1>13 DEF A!Refuse, A!pageVars, A!storeVars
  <2> QED
    BY <1>c, <2>1, <2>8, <2>9, <2>10 DEF A!AccountInv
<1>14. ASSUME NEW p \in requests, A!Answered(p)
      PROVE  A!AccountInv'
  <2> DEFINE u == IF p.state = "done" THEN A!Asked(answers, A!Refreshes(p.kind), activeAccount') ELSE answers
  <2>1. /\ AnswersType(answers')
        /\ answers'["account"] \subseteq answers["account"] \union ({activeAccount'} \ {Nobody})
        /\ activeAccount' \in {activeAccount, p.acct} /\ p.acct \in Accounts
        /\ historyTrades' \in Accounts \union {Nobody}
    <3>1. p.acct \in Accounts
      BY <1>t DEF A!Requests
    <3>2. activeAccount' \in {activeAccount, p.acct} /\ activeAccount' \in Accounts \union {Nobody}
      BY <1>14, <1>t, <3>1 DEF A!Answered
    <3>3. /\ AnswersType(u)
          /\ u["account"] \subseteq answers["account"] \union ({activeAccount'} \ {Nobody})
      BY <1>t, <3>2, AskedIs
    <3>4. IF accountQueryId # Nobody THEN A!FollowActive(u) ELSE answers' = u /\ UNCHANGED historyTrades
      BY <1>14 DEF A!Answered
    <3> HIDE DEF u
    <3>5. CASE accountQueryId # Nobody
      BY <1>t, <3>1, <3>2, <3>3, <3>4, <3>5, FollowIs
    <3>6. CASE accountQueryId = Nobody
      BY <1>t, <3>1, <3>2, <3>3, <3>4, <3>6
    <3> QED
      BY <3>5, <3>6
  <2>2. {accountCalm', accounts', bootstrapping'} \subseteq BOOLEAN
    BY <1>14, <1>t DEF A!Answered, A!pageVars, A!storeVars, A!userVars
  <2>3. {accountQueryId', activeAccount', historyTrades'} \subseteq Accounts \union {Nobody}
    BY <1>14, <1>t, <2>1 DEF A!Answered, A!pageVars, A!storeVars, A!userVars
  <2>4. visits' \in 0..MaxVisits /\ clicks' \in 0..MaxClicks
    BY <1>14, <1>t, ClientsAssumption DEF A!Answered, A!pageVars, A!storeVars, A!userVars
  <2>5. load' \subseteq SUBSET Orders /\ pendingOrders' \subseteq Orders
    BY <1>14, <1>t, PendingIs DEF A!Answered, A!pageVars, A!storeVars, A!userVars,
        A!ShowAccount, AnswersType
  <2>6. requests' \subseteq A!Requests
    BY <1>14, <1>t DEF A!Answered, A!pageVars, A!storeVars, A!userVars, A!Requests, A!Becomes
  <2>7. orders' \in [Orders -> [acct : Accounts \union {Nobody}, status : A!Statuses]]
    BY <1>14, <1>t DEF A!Answered, A!pageVars, A!storeVars, A!userVars, A!Statuses
  <2>8. A!TypeOK' /\ DOMAIN answers' = A!Kinds
    BY <2>1, <2>2, <2>3, <2>4, <2>5, <2>6, <2>7 DEF A!TypeOK, AnswersType
  <2> QED
    BY <1>14, <1>c, <1>t, <2>1, <2>8, ClientsAssumption DEF A!AccountInv, A!Answered,
        A!pageVars, A!storeVars, A!userVars, A!ShowAccount
<1>15. ASSUME NEW o \in Orders, A!OrderGoes(o)
      PROVE  A!AccountInv'
  <2>1. AnswersType(answers') /\ answers'["account"] = answers["account"]
    BY <1>15, <1>t DEF A!OrderGoes
  <2>2. {accountCalm', accounts', bootstrapping'} \subseteq BOOLEAN
    BY <1>15, <1>t DEF A!OrderGoes, A!pageVars, A!storeVars, A!userVars
  <2>3. {accountQueryId', activeAccount', historyTrades'} \subseteq Accounts \union {Nobody}
    BY <1>15, <1>t, <2>1 DEF A!OrderGoes, A!pageVars, A!storeVars, A!userVars
  <2>4. visits' \in 0..MaxVisits /\ clicks' \in 0..MaxClicks
    BY <1>15, <1>t, ClientsAssumption DEF A!OrderGoes, A!pageVars, A!storeVars, A!userVars
  <2>5. load' \subseteq SUBSET Orders /\ pendingOrders' \subseteq Orders
    BY <1>15, <1>t, PendingIs DEF A!OrderGoes, A!pageVars, A!storeVars, A!userVars,
        A!ShowAccount, AnswersType
  <2>6. requests' \subseteq A!Requests
    BY <1>15, <1>t DEF A!OrderGoes, A!pageVars, A!storeVars, A!userVars, A!Requests, A!Becomes
  <2>7. orders' \in [Orders -> [acct : Accounts \union {Nobody}, status : A!Statuses]]
    BY <1>15, <1>t DEF A!OrderGoes, A!pageVars, A!storeVars, A!userVars, A!Statuses
  <2>8. A!TypeOK' /\ DOMAIN answers' = A!Kinds
    BY <2>1, <2>2, <2>3, <2>4, <2>5, <2>6, <2>7 DEF A!TypeOK, AnswersType
  <2> QED
    BY <1>15, <1>c, <1>t, <2>1, <2>8, ClientsAssumption DEF A!AccountInv, A!OrderGoes,
        A!pageVars, A!storeVars, A!userVars, A!ShowAccount
<1> QED
  <2>1. CASE A!UserStep
    BY <2>1, <1>1, <1>2, <1>3, <1>11 DEF A!UserStep
  <2>2. CASE A!ClientStep
    BY <2>2, <1>4, <1>5, <1>6, <1>7, <1>8, <1>9, <1>10, <1>14 DEF A!ClientStep, A!AnyOrders,
        A!AnyHistory
  <2> QED
    BY <2>1, <2>2, <1>12, <1>13, <1>15 DEF A!Next

\* While nothing fails, a step that orders something is a click, and the account it is sent
\* for, the active one, is the one of the address.
LEMMA OrderedIsClicked ==
    ASSUME A!AccountInv, A!Next, accountCalm, NEW p \in A!Ordered
    PROVE  p.acct = accountQueryId
<1>1. ASSUME NEW q \in requests, A!Accept(q) \/ A!Refuse(q) \/ A!Answered(q) PROVE FALSE
  <2>1. requests' \subseteq (requests \ {q})
                        \union {[q EXCEPT !.state = "done"], [q EXCEPT !.state = "failed"]}
    BY <1>1 DEF A!Accept, A!Refuse, A!Answered, A!Becomes
  <2>2. q \in A!Requests
    BY DEF A!AccountInv, A!TypeOK
  <2>3. p.state # "sent"
    BY <2>1, <2>2 DEF A!Ordered, A!Requests
  <2> QED
    BY <2>3 DEF A!Ordered
<1>2. ASSUME NEW kind, NEW order, A!Click(kind, order) PROVE p.acct = accountQueryId
  <2>1. p.acct = activeAccount /\ activeAccount # Nobody /\ accountQueryId # Nobody
    BY <1>2 DEF A!Click, A!Ordered
  <2> QED
    BY <2>1 DEF A!AccountInv
<1>3. CASE UNCHANGED requests
  BY <1>3 DEF A!Ordered
<1> QED
  <2>1. CASE A!UserStep
    BY <2>1, <1>2, <1>3 DEF A!UserStep, A!OpenFromAccounts, A!OpenFromLink, A!Opens, A!Leave,
        A!userVars
  <2>2. CASE A!ClientStep
    BY <2>2, <1>1, <1>3 DEF A!ClientStep, A!BootstrapAnswered, A!LoadAnswered, A!Poll,
        A!AnyOrders,
        A!OrdersAnswered, A!AnyHistory, A!HistoryAnswered, A!AccountAnswered, A!AnswerLost,
        A!userVars
  <2> QED
    BY <2>1, <2>2, <1>1, <1>3 DEF A!Next, A!OrderGoes, A!userVars

\* While nothing fails and the user waits for the answers before leaving, what is ordered is
\* for the account of the terminal's address: page.tsx and the account's answers agree on
\* who is active.
THEOREM CalmOrdersGoToPickedHolds == MCSpec => CalmOrdersGoToPicked
<1>1. MCInit => A!AccountInv
  BY InitAccount DEF MCInit
<1>2. A!AccountInv /\ [MCNext]_allVars => A!AccountInv'
  BY OneMachine, NextAccount
<1>3. A!AccountInv /\ [MCNext]_allVars
        => [accountCalm => \A p \in A!Ordered : p.acct = accountQueryId]_(A!vars)
  <2> SUFFICES ASSUME A!AccountInv, [MCNext]_allVars
               PROVE  [accountCalm => \A p \in A!Ordered : p.acct = accountQueryId]_(A!vars)
    OBVIOUS
  <2>1. CASE UNCHANGED accountVars
    BY <2>1 DEF accountVars, A!vars, A!pageVars, A!storeVars, A!userVars
  <2>2. CASE A!Next
    BY <2>2, OrderedIsClicked
  <2> QED
    BY <2>1, <2>2, OneMachine
<1> QED
  BY <1>1, <1>2, <1>3, PTL DEF MCSpec, CalmOrdersGoToPicked, A!CalmOrdersGoToPicked

-----------------------------------------------------------------------------
(* The open positions. *)

LEMMA SmallestNumber ==
    ASSUME NEW B \in SUBSET Nat, B # {}
    PROVE  \E n \in B : \A m \in B : n <= m
<1>1. PICK n \in B : \A m \in B : <<m, n>> \notin OpToRel(<, Nat)
  BY NatLessThanWellFounded, WFMin
<1>2. ASSUME NEW m \in B PROVE n <= m
  <2>1. n \in Nat /\ m \in Nat
    OBVIOUS
  <2>2. <<m, n>> \in Nat \X Nat /\ ~ (m < n)
    BY <1>1, <1>2, <2>1 DEF OpToRel
  <2> QED
    BY <2>1, <2>2
<1> QED
  BY <1>2

\* What holds at first and is handed on by each step holds at the end.
LEMMA StepByStep ==
    ASSUME NEW N \in Nat, NEW f, NEW Good, f[0] \in Good[0],
           \A n \in 1..N : f[n - 1] \in Good[n - 1] => f[n] \in Good[n]
    PROVE  f[N] \in Good[N]
<1> DEFINE B == {n \in 0..N : f[n] \notin Good[n]}
<1> SUFFICES ASSUME B # {} PROVE FALSE
  OBVIOUS
<1>1. PICK n \in B : \A m \in B : n <= m
  <2>1. B \in SUBSET Nat
    OBVIOUS
  <2> HIDE DEF B
  <2> QED
    BY <2>1, SmallestNumber
<1>2. n \in 1..N /\ n - 1 \in 0..N /\ n - 1 \notin B
  BY <1>1
<1> QED
  BY <1>1, <1>2

\* The lists of items that N steps build from the empty one.
Lists(Items, N, step) ==
    {f \in [0..N -> Seq(Items)] :
        f[0] = <<>> /\ \A n \in 1..N : f[n] = step[n][f[n - 1]]}

LEMMA ListsExist ==
    ASSUME NEW Items, NEW N \in Nat, NEW step \in [1..N -> [Seq(Items) -> Seq(Items)]]
    PROVE  Lists(Items, N, step) # {}
<1> DEFINE B == {n \in 0..N : Lists(Items, n, step) = {}}
<1>1. B = {}
  <2> SUFFICES ASSUME B # {} PROVE FALSE
    OBVIOUS
  <2>1. PICK n \in B : \A m \in B : n <= m
    <3>1. B \in SUBSET Nat
      OBVIOUS
    <3> HIDE DEF B
    <3> QED
      BY <3>1, SmallestNumber
  <2>2. n # 0
    <3>1. [m \in 0..0 |-> <<>>] \in Lists(Items, 0, step)
      BY EmptySeq DEF Lists
    <3> QED
      BY <2>1, <3>1
  <2>3. n \in 1..N /\ n - 1 \in 0..N /\ n - 1 \notin B
    <3>1. n \in 0..N
      OBVIOUS
    <3>2. n \in 1..N /\ n - 1 \in 0..N /\ ~ (n <= n - 1)
      BY <2>2, <3>1
    <3> HIDE DEF B
    <3> QED
      BY <2>1, <3>2
  <2>4. PICK f \in Lists(Items, n - 1, step) : TRUE
    BY <2>3
  <2> DEFINE g == [m \in 0..n |-> IF m = n THEN step[n][f[n - 1]] ELSE f[m]]
  <2>5. g \in Lists(Items, n, step)
    <3>1. /\ f \in [0..(n - 1) -> Seq(Items)] /\ f[0] = <<>>
          /\ \A m \in 1..(n - 1) : f[m] = step[m][f[m - 1]]
      BY <2>4 DEF Lists
    <3>2. step[n][f[n - 1]] \in Seq(Items)
      <4>1. f[n - 1] \in Seq(Items)
        BY <2>3, <3>1
      <4>2. step[n] \in [Seq(Items) -> Seq(Items)]
        BY <2>3
      <4> QED
        BY <4>1, <4>2
    <3>3. \A m \in 0..n : m = n \/ m \in 0..(n - 1)
      BY <2>3
    <3>4. g \in [0..n -> Seq(Items)]
      BY <3>1, <3>2, <3>3
    <3>5. g[0] = <<>>
      BY <2>3, <3>1
    <3>6. ASSUME NEW m \in 1..n PROVE g[m] = step[m][g[m - 1]]
      <4>1. m - 1 \in 0..(n - 1) /\ m - 1 # n /\ m \in 0..n /\ m - 1 \in 0..n
        BY <2>3
      <4>2. g[m - 1] = f[m - 1]
        BY <4>1
      <4>3. CASE m = n
        BY <4>1, <4>2, <4>3
      <4>4. CASE m # n
        <5>1. m \in 1..(n - 1)
          BY <2>3, <4>4
        <5>2. g[m] = f[m]
          BY <4>1, <4>4
        <5> QED
          BY <3>1, <4>2, <5>1, <5>2
      <4> QED
        BY <4>3, <4>4
    <3> HIDE DEF g
    <3> QED
      BY <3>4, <3>5, <3>6 DEF Lists
  <2> HIDE DEF g
  <2> QED
    BY <2>1, <2>5
<1> QED
  BY <1>1

\* A list of good rows among the first n on screen, no name more often than there.
KeptIs(list, n, good) ==
    /\ list \in Seq(R!Rows)
    /\ \A i \in 1..Len(list) : list[i] \in good /\ \E k \in 1..n : list[i] = positions[k]
    /\ R!OneNameEach(positions) =>
          \A i, j \in 1..Len(list) : list[i].name = list[j].name => i = j

LEMMA KeptGrows ==
    ASSUME positions \in Seq(R!Rows), NEW n \in 1..Len(positions), NEW good,
           NEW list, KeptIs(list, n - 1, good)
    PROVE  /\ positions[n] \in good => KeptIs(Append(list, positions[n]), n, good)
           /\ KeptIs(list, n, good)
<1>1. /\ Len(positions) \in Nat /\ DOMAIN positions = 1..Len(positions)
      /\ positions[n] \in R!Rows
  BY LenProperties, ElementOfSeq
<1>2. list \in Seq(R!Rows) /\ Len(list) \in Nat
  BY LenProperties DEF KeptIs
<1>3. \A i \in 1..Len(list) : list[i] \in good /\ \E k \in 1..(n - 1) : list[i] = positions[k]
  BY DEF KeptIs
<1>4. KeptIs(list, n, good)
  <2>1. \A k \in 1..(n - 1) : k \in 1..n
    BY <1>1
  <2> QED
    BY <1>3, <2>1 DEF KeptIs
<1> DEFINE longer == Append(list, positions[n])
<1>5. ASSUME positions[n] \in good PROVE KeptIs(longer, n, good)
  <2>1. /\ longer \in Seq(R!Rows) /\ Len(longer) = Len(list) + 1
        /\ \A i \in 1..Len(list) : longer[i] = list[i]
        /\ longer[Len(list) + 1] = positions[n]
    BY <1>1, <1>2, AppendProperties
  <2> HIDE DEF longer
  <2>2. \A i \in 1..Len(longer) : i \in 1..Len(list) \/ i = Len(list) + 1
    BY <1>2, <2>1
  <2>3. ASSUME NEW i \in 1..Len(longer)
        PROVE  longer[i] \in good /\ \E k \in 1..n : longer[i] = positions[k]
    BY <1>1, <1>4, <1>5, <2>1, <2>2 DEF KeptIs
  <2>4. ASSUME R!OneNameEach(positions),
               NEW i \in 1..Len(longer), NEW j \in 1..Len(longer), longer[i].name = longer[j].name
        PROVE  i = j
    <3>1. ASSUME NEW h \in 1..Len(list) PROVE list[h].name # positions[n].name
      <4>1. PICK k \in 1..(n - 1) : list[h] = positions[k]
        BY <1>3
      <4>2. k \in DOMAIN positions /\ n \in DOMAIN positions /\ k # n
        BY <1>1
      <4> QED
        BY <2>4, <4>1, <4>2 DEF R!OneNameEach
    <3>2. CASE i \in 1..Len(list) /\ j \in 1..Len(list)
      BY <2>1, <2>4, <3>2 DEF KeptIs
    <3>3. CASE i \in 1..Len(list) /\ j = Len(list) + 1
      BY <2>1, <2>4, <3>1, <3>3
    <3>4. CASE i = Len(list) + 1 /\ j \in 1..Len(list)
      BY <2>1, <2>4, <3>1, <3>4
    <3> QED
      BY <2>2, <3>2, <3>3, <3>4
  <2> QED
    BY <2>1, <2>3, <2>4 DEF KeptIs
<1> QED
  BY <1>4, <1>5

\* Leaving rows out keeps the good ones.
LEMMA KeptShows ==
    ASSUME positions \in Seq(R!Rows), NEW good
    PROVE  KeptIs(R!Kept(good), Len(positions), good)
<1> DEFINE N == Len(positions)
           Items == R!Rows
           step == [n \in 1..N |-> [s \in Seq(Items) |->
                      IF positions[n] \in good THEN Append(s, positions[n]) ELSE s]]
           kept[n \in 0..N] ==
               IF n = 0 THEN <<>>
               ELSE IF positions[n] \in good THEN Append(kept[n - 1], positions[n])
               ELSE kept[n - 1]
<1>1. R!Kept(good) = kept[N]
  BY DEF R!Kept
<1>2. N \in Nat /\ \A n \in 1..N : positions[n] \in Items
  BY ElementOfSeq, LenProperties
<1>3. \A n \in 1..N, s \in Seq(Items) : Append(s, positions[n]) \in Seq(Items)
  BY <1>2, AppendProperties
<1>4. PICK f \in Lists(Items, N, step) : TRUE
  <2>1. step \in [1..N -> [Seq(Items) -> Seq(Items)]]
    BY <1>3
  <2> HIDE DEF step, N, Items
  <2> QED
    BY <1>2, <2>1, ListsExist
<1>5. f = [n \in 0..N |-> IF n = 0 THEN <<>>
                          ELSE IF positions[n] \in good THEN Append(f[n - 1], positions[n])
                          ELSE f[n - 1]]
  <2>1. ASSUME NEW n \in 1..N
        PROVE  f[n] = IF positions[n] \in good THEN Append(f[n - 1], positions[n]) ELSE f[n - 1]
    <3>1. f[n - 1] \in Seq(Items) /\ f[n] = step[n][f[n - 1]]
      <4>1. n \in 1..N /\ n - 1 \in 0..N
        BY <1>2
      <4> HIDE DEF step, N, Items
      <4> QED
        BY <4>1 DEF Lists
    <3> QED
      BY <3>1
  <2>2. f[0] = <<>> /\ DOMAIN f = 0..N /\ f = [n \in DOMAIN f |-> f[n]]
    BY DEF Lists
  <2> HIDE DEF N
  <2>3. \A n \in 0..N : n = 0 \/ n \in 1..N
    BY <1>2
  <2> QED
    BY <2>1, <2>2, <2>3
<1>6. kept = [n \in 0..N |-> IF n = 0 THEN <<>>
                             ELSE IF positions[n] \in good THEN Append(kept[n - 1], positions[n])
                             ELSE kept[n - 1]]
  <2> HIDE DEF N
  <2> QED
    BY <1>5
<1> HIDE DEF kept, N
<1> DEFINE Good == [n \in 0..N |-> {list \in Seq(Items) : KeptIs(list, n, good)}]
<1>7. kept[0] \in Good[0]
  <2>1. kept[0] = <<>> /\ 0 \in 0..N
    BY <1>2, <1>6
  <2>2. <<>> \in Seq(Items) /\ Len(<<>>) = 0
    BY EmptySeq
  <2>3. KeptIs(<<>>, 0, good)
    BY <2>2 DEF KeptIs
  <2> QED
    BY <2>1, <2>2, <2>3
<1>8. ASSUME NEW n \in 1..N, kept[n - 1] \in Good[n - 1] PROVE kept[n] \in Good[n]
  <2>1. n \in 0..N /\ n # 0 /\ n - 1 \in 0..N
    BY <1>2
  <2>2. kept[n] = IF positions[n] \in good THEN Append(kept[n - 1], positions[n]) ELSE kept[n - 1]
    BY <1>6, <2>1
  <2>3. kept[n - 1] \in Seq(Items) /\ KeptIs(kept[n - 1], n - 1, good)
    BY <1>8, <2>1
  <2>4. KeptIs(kept[n], n, good)
    <3>1. n \in 1..Len(positions)
      BY DEF N
    <3>2. /\ positions[n] \in good => KeptIs(Append(kept[n - 1], positions[n]), n, good)
          /\ KeptIs(kept[n - 1], n, good)
      BY <2>3, <3>1, KeptGrows
    <3> QED
      BY <2>2, <3>2
  <2> QED
    BY <2>1, <2>4 DEF KeptIs
<1>9. kept[N] \in Good[N]
  <2> HIDE DEF Good
  <2> QED
    BY <1>2, <1>7, <1>8, StepByStep
<1> QED
  BY <1>1, <1>2, <1>9 DEF N

LEMMA KeptType ==
    ASSUME positions \in Seq(R!Rows), NEW good
    PROVE  R!Kept(good) \in Seq(R!Rows)
BY KeptShows DEF KeptIs

\* A list of the positions of an answer among the first n, newest first, under their own ids.
NewestIs(list, n, ids) ==
    /\ list \in Seq(R!Rows)
    /\ {list[i].of : i \in 1..Len(list)} = ids \intersect (1..n)
    /\ \A i, j \in 1..Len(list) : i < j => list[i].of > list[j].of
    /\ \A i \in 1..Len(list) : list[i].name = list[i].of

LEMMA NewestGrows ==
    ASSUME NEW n \in 1..MaxPositions, NEW ids \in SUBSET R!Ids, n \in ids,
           NEW list, NewestIs(list, n - 1, ids)
    PROVE  NewestIs(<<[name |-> n, of |-> n]>> \o list, n, ids)
<1> DEFINE row == [name |-> n, of |-> n]
           longer == <<row>> \o list
<1>0. MaxPositions \in Nat
  BY ClientsAssumption
<1>1. row \in R!Rows /\ row.name = n /\ row.of = n
  BY DEF R!Rows, R!Ids
<1>2. list \in Seq(R!Rows) /\ Len(list) \in Nat
  BY LenProperties DEF NewestIs
<1>3. /\ longer \in Seq(R!Rows) /\ Len(longer) = Len(list) + 1
      /\ longer[1] = row
      /\ \A i \in 1..Len(list) : longer[i + 1] = list[i]
  <2> HIDE DEF row
  <2>1. <<row>> \in Seq(R!Rows) /\ Len(<<row>>) = 1 /\ <<row>>[1] = row
    BY <1>1
  <2>2. /\ longer \in Seq(R!Rows) /\ Len(longer) = 1 + Len(list)
        /\ \A i \in 1..(1 + Len(list)) : longer[i] = IF i <= 1 THEN <<row>>[i] ELSE list[i - 1]
    BY <1>2, <2>1, ConcatProperties
  <2> HIDE DEF longer
  <2>3. longer[1] = row
    BY <1>2, <2>1, <2>2
  <2>4. ASSUME NEW i \in 1..Len(list) PROVE longer[i + 1] = list[i]
    <3>1. i + 1 \in 1..(1 + Len(list)) /\ ~ (i + 1 <= 1) /\ (i + 1) - 1 = i
      BY <1>2
    <3> QED
      BY <2>2, <3>1
  <2> QED
    BY <1>2, <2>2, <2>3, <2>4
<1> HIDE DEF longer, row
<1>4. \A i \in 1..Len(longer) : i = 1 \/ (i - 1 \in 1..Len(list) /\ longer[i] = list[i - 1])
  <2> TAKE i \in 1..Len(longer)
  <2>1. CASE i # 1
    <3>1. i - 1 \in 1..Len(list) /\ (i - 1) + 1 = i
      BY <1>2, <1>3, <2>1
    <3> QED
      BY <1>3, <3>1
  <2> QED
    BY <2>1
<1>5. \A i \in 1..Len(list) : list[i].of \in ids /\ list[i].of \in 1..(n - 1)
  BY DEF NewestIs
<1>6. {longer[i].of : i \in 1..Len(longer)} = ids \intersect (1..n)
  <2>1. ASSUME NEW i \in 1..Len(longer) PROVE longer[i].of \in ids \intersect (1..n)
    <3>1. CASE i = 1
      BY <1>1, <1>3, <3>1
    <3>2. CASE i - 1 \in 1..Len(list) /\ longer[i] = list[i - 1]
      <4>1. longer[i].of \in ids /\ longer[i].of \in 1..(n - 1)
        BY <1>5, <3>2
      <4> QED
        BY <1>0, <4>1
    <3> QED
      BY <1>4, <3>1, <3>2
  <2>2. ASSUME NEW id \in ids \intersect (1..n) PROVE \E i \in 1..Len(longer) : id = longer[i].of
    <3>1. CASE id = n
      <4>1. 1 \in 1..Len(longer)
        BY <1>2, <1>3
      <4> QED
        BY <1>1, <1>3, <3>1, <4>1
    <3>2. CASE id # n
      <4>1. id \in ids \intersect (1..(n - 1))
        BY <3>2
      <4>2. PICK i \in 1..Len(list) : id = list[i].of
        BY <4>1 DEF NewestIs
      <4>3. i + 1 \in 1..Len(longer)
        BY <1>2, <1>3
      <4> QED
        BY <1>3, <4>2, <4>3
    <3> QED
      BY <3>1, <3>2
  <2> QED
    BY <2>1, <2>2
<1>7. ASSUME NEW i \in 1..Len(longer), NEW j \in 1..Len(longer), i < j
      PROVE  longer[i].of > longer[j].of
  <2>1. j - 1 \in 1..Len(list) /\ longer[j] = list[j - 1]
    BY <1>4, <1>7
  <2>2. CASE i = 1
    BY <1>1, <1>3, <1>5, <2>1, <2>2
  <2>3. CASE i - 1 \in 1..Len(list) /\ longer[i] = list[i - 1]
    <3>1. i - 1 < j - 1
      BY <1>7
    <3> QED
      BY <2>1, <2>3, <3>1 DEF NewestIs
  <2> QED
    BY <1>4, <2>2, <2>3
<1>8. \A i \in 1..Len(longer) : longer[i].name = longer[i].of
  BY <1>1, <1>3, <1>4 DEF NewestIs
<1>9. NewestIs(longer, n, ids)
  BY <1>3, <1>6, <1>7, <1>8 DEF NewestIs
<1> QED
  BY <1>9 DEF longer, row

\* An answer of GET /positions lists its positions, newest first.
LEMMA SnapshotShows ==
    ASSUME NEW ids \in SUBSET R!Ids
    PROVE  NewestIs(R!Snapshot(ids), MaxPositions, ids)
<1> DEFINE N == MaxPositions
           Items == R!Rows
           Item(n) == [name |-> n, of |-> n]
           step == [n \in 1..N |-> [s \in Seq(Items) |-> IF n \in ids THEN <<Item(n)>> \o s ELSE s]]
           newest[n \in 0..N] ==
               IF n = 0 THEN <<>>
               ELSE IF n \in ids THEN <<Item(n)>> \o newest[n - 1]
               ELSE newest[n - 1]
<1>1. R!Snapshot(ids) = newest[N]
  BY DEF R!Snapshot
<1>2. N \in Nat
  BY ClientsAssumption
<1>3. \A n \in 1..N, s \in Seq(Items) : <<Item(n)>> \o s \in Seq(Items)
  <2>1. ASSUME NEW n \in 1..N PROVE Item(n) \in Items
    BY DEF R!Rows, R!Ids
  <2>2. ASSUME NEW n \in 1..N PROVE <<Item(n)>> \in Seq(Items)
    <3>1. Item(n) \in Items
      BY <2>1
    <3> HIDE DEF Item, Items
    <3> QED
      BY <3>1
  <2> HIDE DEF Item, Items
  <2> QED
    BY <2>2, ConcatProperties
<1>4. PICK f \in Lists(Items, N, step) : TRUE
  <2>1. step \in [1..N -> [Seq(Items) -> Seq(Items)]]
    <3> HIDE DEF Item, Items
    <3> QED
      BY <1>3
  <2> HIDE DEF step, N, Items
  <2> QED
    BY <1>2, <2>1, ListsExist
<1>5. f = [n \in 0..N |-> IF n = 0 THEN <<>>
                          ELSE IF n \in ids THEN <<Item(n)>> \o f[n - 1]
                          ELSE f[n - 1]]
  <2>1. ASSUME NEW n \in 1..N
        PROVE  f[n] = IF n \in ids THEN <<Item(n)>> \o f[n - 1] ELSE f[n - 1]
    <3>1. f[n - 1] \in Seq(Items) /\ f[n] = step[n][f[n - 1]]
      <4>1. n \in 1..N /\ n - 1 \in 0..N
        BY <1>2
      <4> HIDE DEF step, N, Items
      <4> QED
        BY <4>1 DEF Lists
    <3> QED
      BY <3>1
  <2>2. f[0] = <<>> /\ DOMAIN f = 0..N /\ f = [n \in DOMAIN f |-> f[n]]
    BY DEF Lists
  <2> HIDE DEF N, Item
  <2>3. \A n \in 0..N : n = 0 \/ n \in 1..N
    BY <1>2
  <2> QED
    BY <2>1, <2>2, <2>3
<1>6. newest = [n \in 0..N |-> IF n = 0 THEN <<>>
                               ELSE IF n \in ids THEN <<Item(n)>> \o newest[n - 1]
                               ELSE newest[n - 1]]
  <2> HIDE DEF N
  <2> QED
    BY <1>5
<1> HIDE DEF newest, N, Item
<1> DEFINE Good == [n \in 0..N |-> {list \in Seq(Items) : NewestIs(list, n, ids)}]
<1>7. newest[0] \in Good[0]
  <2>1. newest[0] = <<>> /\ 0 \in 0..N
    BY <1>2, <1>6
  <2>2. <<>> \in Seq(Items) /\ Len(<<>>) = 0
    BY EmptySeq
  <2>3. NewestIs(<<>>, 0, ids)
    BY <2>2 DEF NewestIs
  <2> QED
    BY <2>1, <2>2, <2>3
<1>8. ASSUME NEW n \in 1..N, newest[n - 1] \in Good[n - 1] PROVE newest[n] \in Good[n]
  <2>1. n \in 0..N /\ n # 0 /\ n - 1 \in 0..N
    BY <1>2
  <2>2. newest[n] = IF n \in ids THEN <<Item(n)>> \o newest[n - 1] ELSE newest[n - 1]
    BY <1>6, <2>1
  <2>3. newest[n - 1] \in Seq(Items) /\ NewestIs(newest[n - 1], n - 1, ids)
    BY <1>8, <2>1
  <2>4. CASE n \in ids
    <3>1. NewestIs(<<Item(n)>> \o newest[n - 1], n, ids)
      BY <2>3, <2>4, NewestGrows DEF N, Item
    <3>2. NewestIs(newest[n], n, ids)
      BY <2>2, <2>4, <3>1
    <3>3. newest[n] \in Seq(Items)
      BY <3>2 DEF NewestIs
    <3> QED
      BY <2>1, <3>2, <3>3
  <2>5. CASE n \notin ids
    <3>1. ids \intersect (1..(n - 1)) = ids \intersect (1..n)
      BY <1>2, <2>5
    <3>2. NewestIs(newest[n - 1], n, ids)
      BY <2>3, <3>1 DEF NewestIs
    <3> QED
      BY <2>1, <2>2, <2>3, <2>5, <3>2
  <2> QED
    BY <2>4, <2>5
<1>9. newest[N] \in Good[N]
  <2> HIDE DEF Good
  <2> QED
    BY <1>2, <1>7, <1>8, StepByStep
<1> QED
  BY <1>1, <1>2, <1>9 DEF N

\* What an answer is merged with, whatever is on screen, shows the answer.
LEMMA MergedShows ==
    ASSUME positions \in Seq(R!Rows), NEW ids \in SUBSET R!Ids
    PROVE  R!Merged(ids) \in Seq(R!Rows) /\ R!ShowsAnswer(R!Merged(ids), ids)
<1> DEFINE Items == R!Rows
           awaited == {r \in R!Rows : R!IsOptimistic(r) /\ R!Fresh(r)}
           listed == R!Snapshot(ids)
           fresh == R!Kept(awaited)
           matched == IF Len(listed) < Len(fresh) THEN Len(listed) ELSE Len(fresh)
           top == SubSeq(fresh, matched + 1, Len(fresh))
           named == [i \in DOMAIN listed |->
                        IF i <= matched THEN [listed[i] EXCEPT !.name = fresh[i].name] ELSE listed[i]]
           merged == top \o named
<1>0. R!Merged(ids) = merged
  BY DEF R!Merged
<1>1. NewestIs(listed, MaxPositions, ids) /\ KeptIs(fresh, Len(positions), awaited)
  BY SnapshotShows, KeptShows
<1>2. Len(positions) \in Nat /\ DOMAIN positions = 1..Len(positions)
  BY LenProperties
<1> HIDE DEF listed, fresh
<1>3. /\ listed \in Seq(Items) /\ fresh \in Seq(Items)
      /\ Len(listed) \in Nat /\ Len(fresh) \in Nat
      /\ DOMAIN listed = 1..Len(listed) /\ DOMAIN fresh = 1..Len(fresh)
      /\ \A i \in 1..Len(listed) : listed[i] \in Items
      /\ \A i \in 1..Len(fresh) : fresh[i] \in Items
  <2> HIDE DEF Items, awaited
  <2>1. listed \in Seq(Items) /\ fresh \in Seq(Items)
    BY <1>1 DEF NewestIs, KeptIs, Items
  <2> QED
    BY <2>1, LenProperties, ElementOfSeq
<1>4. matched \in Nat /\ matched <= Len(fresh) /\ matched <= Len(listed)
  BY <1>3
<1>5. /\ top \in Seq(Items) /\ Len(top) = Len(fresh) - matched
      /\ \A i \in 1..Len(top) : top[i] = fresh[matched + i] /\ matched + i \in 1..Len(fresh)
  <2> HIDE DEF Items, matched
  <2>1. \A i \in (matched + 1)..Len(fresh) : fresh[i] \in Items
    BY <1>3, <1>4
  <2>2. /\ top \in Seq(Items)
        /\ Len(top) = IF matched + 1 <= Len(fresh) THEN Len(fresh) - (matched + 1) + 1 ELSE 0
        /\ \A i \in 1..(Len(fresh) - (matched + 1) + 1) : top[i] = fresh[(matched + 1) + i - 1]
    BY <1>3, <1>4, <2>1, SubSeqProperties
  <2> HIDE DEF top
  <2>3. Len(top) = Len(fresh) - matched
    <3>1. matched + 1 <= Len(fresh) \/ matched = Len(fresh)
      <4>1. \A m, n \in Nat : m <= n => m + 1 <= n \/ m = n
        OBVIOUS
      <4>2. matched \in Nat /\ Len(fresh) \in Nat /\ matched <= Len(fresh)
        BY <1>3, <1>4
      <4> QED
        BY <4>1, <4>2
    <3>2. CASE matched + 1 <= Len(fresh)
      BY <1>3, <1>4, <2>2, <3>2
    <3>3. CASE matched = Len(fresh)
      BY <1>3, <1>4, <2>2, <3>3
    <3> QED
      BY <3>1, <3>2, <3>3
  <2>4. ASSUME NEW i \in 1..Len(top) PROVE top[i] = fresh[matched + i] /\ matched + i \in 1..Len(fresh)
    <3>1. i \in 1..(Len(fresh) - (matched + 1) + 1) /\ (matched + 1) + i - 1 = matched + i
          /\ matched + i \in 1..Len(fresh)
      BY <1>3, <1>4, <2>3
    <3> QED
      BY <2>2, <3>1
  <2> QED
    BY <2>2, <2>3, <2>4
<1>6. /\ named \in Seq(Items) /\ Len(named) = Len(listed)
      /\ \A i \in 1..Len(listed) :
            /\ named[i].of = listed[i].of
            /\ named[i].name = IF i <= matched THEN fresh[i].name ELSE listed[i].name
  <2>1. ASSUME NEW i \in 1..Len(listed)
        PROVE  /\ named[i] \in Items /\ named[i].of = listed[i].of
               /\ named[i].name = IF i <= matched THEN fresh[i].name ELSE listed[i].name
    <3>1. CASE i <= matched
      <4>1. i \in 1..Len(fresh)
        BY <1>3, <1>4, <3>1
      <4>2. fresh[i].name \in R!Ids \union R!Tokens
        BY <1>3, <4>1 DEF R!Rows
      <4> QED
        BY <1>3, <3>1, <4>2 DEF R!Rows
    <3>2. CASE ~ (i <= matched)
      BY <1>3, <3>2
    <3> QED
      BY <3>1, <3>2
  <2>2. named \in [1..Len(listed) -> Items]
    <3> HIDE DEF Items, matched
    <3> QED
      BY <1>3, <2>1
  <2>3. named \in Seq(Items) /\ Len(named) = Len(listed)
    <3> HIDE DEF named, Items
    <3> QED
      BY <1>3, <2>2, SeqDef, LenProperties
  <2> HIDE DEF named, Items, matched
  <2> QED
    BY <2>1, <2>3
<1> HIDE DEF top, named, matched, Items
<1>7. /\ merged \in Seq(Items) /\ Len(merged) = Len(top) + Len(listed)
      /\ Len(top) \in Nat
      /\ \A i \in 1..Len(top) : merged[i] = top[i]
      /\ \A i \in (Len(top) + 1)..Len(merged) :
            i - Len(top) \in 1..Len(listed) /\ merged[i] = named[i - Len(top)]
  <2>1. Len(top) \in Nat /\ Len(named) \in Nat
    BY <1>3, <1>4, <1>5, <1>6
  <2>2. /\ merged \in Seq(Items) /\ Len(merged) = Len(top) + Len(named)
        /\ \A i \in 1..(Len(top) + Len(named)) :
              merged[i] = IF i <= Len(top) THEN top[i] ELSE named[i - Len(top)]
    <3>1. top \in Seq(Items) /\ named \in Seq(Items)
      BY <1>5, <1>6
    <3>2. /\ top \o named \in Seq(Items) /\ Len(top \o named) = Len(top) + Len(named)
          /\ \A i \in 1..(Len(top) + Len(named)) :
                (top \o named)[i] = IF i <= Len(top) THEN top[i] ELSE named[i - Len(top)]
      BY <3>1, ConcatProperties
    <3> QED
      BY <3>2
  <2> HIDE DEF merged
  <2>3. \A i \in 1..Len(top) : merged[i] = top[i]
    BY <2>1, <2>2
  <2>4. ASSUME NEW i \in (Len(top) + 1)..Len(merged)
        PROVE  i - Len(top) \in 1..Len(listed) /\ merged[i] = named[i - Len(top)]
    <3>1. i \in 1..(Len(top) + Len(named)) /\ ~ (i <= Len(top)) /\ i - Len(top) \in 1..Len(named)
      BY <2>1, <2>2
    <3> QED
      BY <1>6, <2>2, <3>1
  <2> QED
    BY <1>6, <2>1, <2>2, <2>3, <2>4
<1> HIDE DEF merged
<1>8. DOMAIN merged = 1..Len(merged) /\ Len(merged) \in Nat /\ Len(top) \in 0..Len(merged)
  BY <1>3, <1>7, LenProperties
<1>a. ASSUME NEW i \in 1..Len(fresh) PROVE R!Awaited(fresh[i]) /\ fresh[i] \in R!Rows
  <2>1. fresh[i] \in awaited /\ \E k \in 1..Len(positions) : fresh[i] = positions[k]
    BY <1>1 DEF KeptIs
  <2> QED
    BY <1>2, <2>1 DEF R!Awaited, R!ToSet
<1>9. \A i \in 1..Len(top) : R!Awaited(merged[i])
  BY <1>5, <1>7, <1>a
<1>10. {merged[i].of : i \in (Len(top) + 1)..Len(merged)} = ids
  <2>1. {listed[i].of : i \in 1..Len(listed)} = ids
    <3>1. ids \intersect (1..MaxPositions) = ids
      BY DEF R!Ids
    <3> QED
      BY <1>1, <3>1 DEF NewestIs
  <2>2. ASSUME NEW i \in (Len(top) + 1)..Len(merged) PROVE merged[i].of \in ids
    BY <1>6, <1>7, <2>1
  <2>3. ASSUME NEW id \in ids PROVE \E i \in (Len(top) + 1)..Len(merged) : id = merged[i].of
    <3>1. PICK k \in 1..Len(listed) : id = listed[k].of
      BY <2>1
    <3>2. Len(top) + k \in (Len(top) + 1)..Len(merged) /\ (Len(top) + k) - Len(top) = k
      BY <1>3, <1>7
    <3> QED
      BY <1>6, <1>7, <3>1, <3>2
  <2> QED
    BY <2>2, <2>3
<1>11. ASSUME NEW i \in (Len(top) + 1)..Len(merged), NEW j \in (Len(top) + 1)..Len(merged), i < j
       PROVE  merged[i].of > merged[j].of
  <2>1. i - Len(top) < j - Len(top)
    BY <1>7, <1>11
  <2> QED
    BY <1>1, <1>6, <1>7, <2>1 DEF NewestIs
\* Where the name of a row comes from.
<1> DEFINE From(i) == IF i <= Len(top) THEN matched + i ELSE i - Len(top)
<1>12. ASSUME NEW i \in 1..Len(merged)
       PROVE  \/ From(i) \in 1..Len(fresh) /\ merged[i].name = fresh[From(i)].name
                 /\ (i > Len(top) => From(i) <= matched)
              \/ /\ i \in (Len(top) + 1)..Len(merged) /\ merged[i].name = merged[i].of
                 /\ merged[i].of \in 1..MaxPositions
  <2>1. CASE i \in 1..Len(top)
    BY <1>5, <1>7, <2>1
  <2>2. CASE i \in (Len(top) + 1)..Len(merged)
    <3>1. i - Len(top) \in 1..Len(listed) /\ merged[i] = named[i - Len(top)]
      BY <1>7, <2>2
    <3>2. CASE i - Len(top) <= matched
      <4>1. From(i) = i - Len(top) /\ From(i) \in 1..Len(fresh)
        BY <1>3, <1>4, <1>7, <2>2, <3>1, <3>2
      <4> QED
        BY <1>6, <3>1, <3>2, <4>1
    <3>3. CASE ~ (i - Len(top) <= matched)
      <4>1. merged[i].name = merged[i].of
        BY <1>1, <1>6, <3>1, <3>3 DEF NewestIs
      <4>2. merged[i].of \in 1..MaxPositions
        BY <1>10, <2>2 DEF R!Ids
      <4> QED
        BY <2>2, <4>1, <4>2
    <3> QED
      BY <3>2, <3>3
  <2>3. i \in 1..Len(top) \/ i \in (Len(top) + 1)..Len(merged)
    BY <1>7, <1>8
  <2> QED
    BY <2>1, <2>2, <2>3
<1>13. \A i \in (Len(top) + 1)..Len(merged) :
          \/ merged[i].name = merged[i].of
          \/ \E r \in R!Rows : R!Awaited(r) /\ merged[i].name = r.name
  <2> TAKE i \in (Len(top) + 1)..Len(merged)
  <2>1. i \in 1..Len(merged)
    BY <1>7, <1>8
  <2> HIDE DEF From
  <2> QED
    BY <1>12, <1>a, <2>1
<1>14. R!OneNameEach(positions) => R!OneNameEach(merged)
  <2> SUFFICES ASSUME R!OneNameEach(positions),
                      NEW i \in 1..Len(merged), NEW j \in 1..Len(merged),
                      merged[i].name = merged[j].name
               PROVE  i = j
    BY <1>8 DEF R!OneNameEach
  <2>1. \A h, k \in 1..Len(fresh) : fresh[h].name = fresh[k].name => h = k
    BY <1>1 DEF KeptIs
  <2>2. \A h \in 1..Len(fresh) : fresh[h].name < 0 /\ ~ (fresh[h].name \in 1..MaxPositions)
    <3>1. ASSUME NEW h \in 1..Len(fresh) PROVE fresh[h].name < 0
      BY <1>a DEF R!Awaited, R!IsOptimistic
    <3>2. ASSUME NEW x \in 1..MaxPositions PROVE ~ (x < 0)
      BY ClientsAssumption
    <3> QED
      BY <3>1, <3>2
  <2> DEFINE FromFresh(h) == From(h) \in 1..Len(fresh) /\ merged[h].name = fresh[From(h)].name
                             /\ (h > Len(top) => From(h) <= matched)
             FromAnswer(h) == /\ h \in (Len(top) + 1)..Len(merged) /\ merged[h].name = merged[h].of
                              /\ merged[h].of \in 1..MaxPositions
  <2>3. CASE FromFresh(i) /\ FromFresh(j)
    <3>1. From(i) = From(j)
      <4> HIDE DEF From
      <4> QED
        BY <2>1, <2>3
    <3>2. i \in Nat /\ j \in Nat /\ i >= 1 /\ j >= 1
      BY <1>8
    <3> QED
      BY <1>4, <1>7, <2>3, <3>1, <3>2
  <2>i. \A x \in 1..MaxPositions : x \in Int
    BY ClientsAssumption
  <2>4. CASE FromAnswer(i) /\ FromAnswer(j)
    <3>1. ~ (i < j)
      <4>1. ASSUME i < j PROVE FALSE
        <5>1. merged[i].of > merged[j].of
          BY <1>11, <2>4, <4>1
        <5>2. merged[i].of = merged[j].of
          BY <2>4
        <5>3. merged[i].of \in Int
          BY <2>4, <2>i
        <5> QED
          BY <5>1, <5>2, <5>3
      <4> QED
        BY <4>1
    <3>2. ~ (j < i)
      <4>1. ASSUME j < i PROVE FALSE
        <5>1. merged[j].of > merged[i].of
          BY <1>11, <2>4, <4>1
        <5>2. merged[j].of = merged[i].of
          BY <2>4
        <5>3. merged[j].of \in Int
          BY <2>4, <2>i
        <5> QED
          BY <5>1, <5>2, <5>3
      <4> QED
        BY <4>1
    <3> QED
      BY <1>8, <3>1, <3>2
  <2>5. ~ (FromFresh(i) /\ FromAnswer(j)) /\ ~ (FromAnswer(i) /\ FromFresh(j))
    <3> HIDE DEF From
    <3> QED
      BY <2>2
  <2>6. (FromFresh(i) \/ FromAnswer(i)) /\ (FromFresh(j) \/ FromAnswer(j))
    <3> HIDE DEF From
    <3> QED
      BY <1>12
  <2> HIDE DEF FromFresh, FromAnswer
  <2> QED
    BY <2>3, <2>4, <2>5, <2>6
<1>15. R!ShowsAnswer(merged, ids)
  <2> HIDE DEF From
  <2> QED
    BY <1>8, <1>9, <1>10, <1>11, <1>13, <1>14 DEF R!ShowsAnswer
<1> QED
  BY <1>0, <1>7, <1>15 DEF Items

LEMMA PromotedType ==
    ASSUME positions \in Seq(R!Rows), NEW name, NEW id \in R!Ids
    PROVE  R!Promoted(name, id) \in Seq(R!Rows)
<1> DEFINE Items == R!Rows
           N == Len(positions)
<1>1. N \in Nat /\ DOMAIN positions = 1..N /\ \A i \in 1..N : positions[i] \in Items
  BY LenProperties, ElementOfSeq
<1>2. \A i \in 1..N : R!Promoted(name, id)[i] \in Items
  BY <1>1 DEF R!Promoted, R!Rows
<1>3. R!Promoted(name, id) \in [1..N -> Items]
  <2>1. DOMAIN R!Promoted(name, id) = 1..N
        /\ R!Promoted(name, id) = [i \in DOMAIN positions |-> R!Promoted(name, id)[i]]
    BY <1>1 DEF R!Promoted
  <2> HIDE DEF Items, N
  <2> QED
    BY <1>1, <1>2, <2>1
<1> HIDE DEF Items, N
<1>4. R!Promoted(name, id) \in Seq(Items)
  BY <1>1, <1>3, SeqDef
<1> QED
  BY <1>4 DEF Items

LEMMA OpenType ==
    ASSUME R!TypeOK
    PROVE  /\ MaxPositions \in Nat /\ MaxRowActs \in Nat
           /\ open \subseteq R!Ids /\ lists \union {open} \subseteq SUBSET R!Ids
           /\ \A id \in 1..opened : id \in R!Ids
<1>1. MaxPositions \in Nat /\ MaxRowActs \in Nat
  BY ClientsAssumption
<1>2. opened \in 0..MaxPositions /\ open \subseteq 1..opened /\ lists \subseteq SUBSET R!Ids
  BY DEF R!TypeOK
<1>3. \A id \in 1..opened : id \in R!Ids
  BY <1>1, <1>2 DEF R!Ids
<1> QED
  BY <1>1, <1>2, <1>3

\* What is shown after an answer, and what is asked for.
LEMMA ShownAfter ==
    ASSUME R!TypeOK, NEW p \in posts, R!Answers(p, p.ok)
    PROVE  positions' \in Seq(R!Rows) /\ lists' \subseteq SUBSET R!Ids
<1>1. p \in R!Requests /\ positions \in Seq(R!Rows)
  BY DEF R!TypeOK
<1>2. p.ok \subseteq R!Ids /\ p.prev \in Seq(R!Rows)
  BY <1>1 DEF R!Requests
<1>3. R!Without(p.ok) \in Seq(R!Rows)
  BY <1>1, KeptType DEF R!Without
<1>4. p.ok # {} => R!Promoted(p.name, CHOOSE id \in p.ok : TRUE) \in Seq(R!Rows)
  <2>1. p.ok # {} => (CHOOSE id \in p.ok : TRUE) \in R!Ids
    BY <1>2
  <2> QED
    BY <1>1, <2>1, PromotedType
<1>5. R!AfterAnswer(p, p.ok) \in Seq(R!Rows)
  BY <1>1, <1>2, <1>3, <1>4 DEF R!AfterAnswer
<1>6. lists' \subseteq SUBSET R!Ids
  BY OpenType DEF R!Answers, R!Ask
<1> QED
  BY <1>5, <1>6 DEF R!Answers

LEMMA InitRows == R!Init => R!TypeOK
<1> SUFFICES ASSUME R!Init PROVE R!TypeOK
  OBVIOUS
<1>1. rowActs \in 0..MaxRowActs
  BY ClientsAssumption DEF R!Init
<1>2. positions \in Seq(R!Rows) /\ young \in Seq(R!Ids \union R!Tokens)
  BY EmptySeq DEF R!Init
<1> QED
  BY <1>1, <1>2 DEF R!Init, R!TypeOK

\* A click is counted, and what it sends names its token.
LEMMA SendsType ==
    ASSUME R!TypeOK,
           NEW kind \in {"market", "close"}, NEW by \in {"store", "bare", "panel", "toolbox"},
           NEW prev \in Seq(R!Rows), NEW targets \in SUBSET (R!Ids \union R!Tokens),
           R!Sends(kind, by, prev, targets)
    PROVE  rowActs' \in 0..MaxRowActs /\ posts' \subseteq R!Requests
<1>1. /\ MaxRowActs \in Nat /\ rowActs \in 0..MaxRowActs
      /\ rowActs < MaxRowActs /\ rowActs' = rowActs + 1
  BY OpenType DEF R!TypeOK, R!Sends, R!Acts
<1>2. rowActs' \in 0..MaxRowActs /\ rowActs + 1 \in 1..MaxRowActs
  BY <1>1
<1>3. -(rowActs + 1) \in R!Tokens
  BY <1>2 DEF R!Tokens
<1> DEFINE q == [name |-> -(rowActs + 1), kind |-> kind, by |-> by, prev |-> prev,
                 targets |-> targets, ok |-> {}, heard |-> FALSE]
<1>4. q \in R!Requests
  BY <1>3 DEF R!Requests
<1>5. posts' = posts \union {q}
  BY DEF R!Sends
<1> QED
  BY <1>2, <1>4, <1>5 DEF R!TypeOK

LEMMA OpensType ==
    ASSUME R!TypeOK, R!Opens
    PROVE  /\ opened' \in 0..MaxPositions /\ open' \subseteq 1..opened'
           /\ young' \in Seq(R!Ids \union R!Tokens)
           /\ opened + 1 \in R!Ids
<1>1. /\ MaxPositions \in Nat /\ opened \in 0..MaxPositions /\ opened < MaxPositions
      /\ opened' = opened + 1 /\ open \subseteq 1..opened /\ open' = open \union {opened + 1}
  BY OpenType DEF R!TypeOK, R!Opens
<1>2. opened + 1 \in R!Ids /\ opened' \in 0..MaxPositions
  BY <1>1 DEF R!Ids
<1>3. open' \subseteq 1..opened'
  BY <1>1
<1>4. young' \in Seq(R!Ids \union R!Tokens)
  BY <1>2, AppendProperties DEF R!TypeOK, R!Opens
<1> QED
  BY <1>2, <1>3, <1>4

LEMMA ClosesType ==
    ASSUME R!TypeOK, NEW id, R!Closes(id)
    PROVE  id \in R!Ids /\ open' \subseteq 1..opened /\ events' \subseteq R!Ids
BY OpenType DEF R!TypeOK, R!Closes

LEMMA ConfirmedType ==
    ASSUME R!TypeOK, NEW p \in posts, NEW t, NEW ids \in SUBSET R!Ids, R!Confirmed(p, t, ids)
    PROVE  posts' \subseteq R!Requests
<1>1. p \in R!Requests
  BY DEF R!TypeOK
<1>2. [p EXCEPT !.targets = @ \ {t}, !.ok = @ \union ids] \in R!Requests
  BY <1>1 DEF R!Requests
<1> QED
  BY <1>2 DEF R!TypeOK, R!Confirmed

LEMMA NextRows == R!TypeOK /\ [R!Next]_rowVars => R!TypeOK'
<1> SUFFICES ASSUME R!TypeOK, [R!Next]_rowVars PROVE R!TypeOK'
  OBVIOUS
<1>t. /\ positions \in Seq(R!Rows) /\ young \in Seq(R!Ids \union R!Tokens)
      /\ rowActs \in 0..MaxRowActs /\ posts \subseteq R!Requests
      /\ lists \subseteq SUBSET R!Ids /\ events \subseteq R!Ids
      /\ opened \in 0..MaxPositions /\ open \subseteq 1..opened
  BY DEF R!TypeOK
<1>k. \A good : R!Kept(good) \in Seq(R!Rows)
  BY <1>t, KeptType
<1>a. R!Ask => lists' \subseteq SUBSET R!Ids
  BY OpenType DEF R!Ask
<1>c. R!Acts => rowActs' \in 0..MaxRowActs
  BY <1>t, OpenType DEF R!Acts
<1>1. CASE UNCHANGED rowVars
  BY <1>1 DEF rowVars, R!TypeOK
<1>2. ASSUME NEW by \in {"store", "bare", "panel"}, R!PlaceMarket(by) PROVE R!TypeOK'
  <2> DEFINE token == -(rowActs + 1)
  <2>1. token \in R!Tokens
    <3>1. rowActs + 1 \in 1..MaxRowActs
      BY <1>2, <1>t, OpenType DEF R!PlaceMarket, R!Sends, R!Acts
    <3> QED
      BY <3>1 DEF R!Tokens
  <2>2. rowActs' \in 0..MaxRowActs /\ posts' \subseteq R!Requests
    <3>1. (IF by = "bare" THEN <<>> ELSE positions) \in Seq(R!Rows)
      BY <1>t, EmptySeq
    <3>2. {token} \in SUBSET (R!Ids \union R!Tokens)
      BY <2>1
    <3>3. R!Sends("market", by, IF by = "bare" THEN <<>> ELSE positions, {token})
      BY <1>2 DEF R!PlaceMarket
    <3> HIDE DEF token
    <3> QED
      BY <3>1, <3>2, <3>3, SendsType
  <2>3. positions' \in Seq(R!Rows) /\ young' \in Seq(R!Ids \union R!Tokens)
    <3> DEFINE row == [name |-> token, of |-> 0]
    <3>1. row \in R!Rows
      BY <2>1 DEF R!Rows, R!NoData
    <3>2. \/ UNCHANGED <<positions, young>>
          \/ positions' = <<row>> \o positions /\ young' = Append(young, token)
      BY <1>2 DEF R!PlaceMarket, R!NoData
    <3>3. <<row>> \in Seq(R!Rows)
      <4> HIDE DEF row
      <4> QED
        BY <3>1
    <3> HIDE DEF row, token
    <3>4. <<row>> \o positions \in Seq(R!Rows)
      BY <1>t, <3>3, ConcatProperties
    <3>5. Append(young, token) \in Seq(R!Ids \union R!Tokens)
      BY <1>t, <2>1, AppendProperties
    <3> QED
      BY <1>t, <3>2, <3>4, <3>5
  <2> QED
    BY <1>2, <1>t, <2>2, <2>3 DEF R!TypeOK, R!PlaceMarket
<1>3. ASSUME NEW r \in R!ToSet(positions), NEW by \in {"panel", "toolbox"}, R!Close(r, by)
      PROVE  R!TypeOK'
  <2>1. r \in R!Rows
    BY <1>t, ElementOfSeq, LenProperties DEF R!ToSet
  <2>2. {r.name} \in SUBSET (R!Ids \union R!Tokens)
    BY <2>1 DEF R!Rows
  <2>3. <<>> \in Seq(R!Rows) /\ R!Sends("close", "panel", <<>>, {r.name})
    BY <1>3, EmptySeq DEF R!Close
  <2>4. rowActs' \in 0..MaxRowActs /\ posts' \subseteq R!Requests
    BY <2>2, <2>3, SendsType
  <2> QED
    BY <1>3, <1>t, <1>k, <2>4 DEF R!TypeOK, R!Close, R!Without
<1>4. ASSUME NEW names \in SUBSET R!Ids, R!BulkClose(names) PROVE R!TypeOK'
  <2>1. <<>> \in Seq(R!Rows) /\ R!Sends("close", "store", <<>>, names)
    BY <1>4, EmptySeq DEF R!BulkClose
  <2>2. rowActs' \in 0..MaxRowActs /\ posts' \subseteq R!Requests
    BY <2>1, SendsType
  <2> QED
    BY <1>4, <1>t, <2>2 DEF R!TypeOK, R!BulkClose
<1>5. ASSUME NEW p \in posts, NEW t \in p.targets, R!Accept(p, t) PROVE R!TypeOK'
  <2>1. CASE R!Opens /\ R!Confirmed(p, t, {opened + 1}) /\ UNCHANGED events
    <3>1. {opened + 1} \in SUBSET R!Ids
      BY <2>1, OpensType
    <3>2. posts' \subseteq R!Requests
      BY <2>1, <3>1, ConfirmedType
    <3> QED
      BY <1>5, <1>t, <2>1, <3>2, OpensType DEF R!TypeOK, R!Accept
  <2>2. CASE R!Closes(t) /\ R!Confirmed(p, t, {t}) /\ UNCHANGED <<young, opened>>
    <3>1. {t} \in SUBSET R!Ids
      BY <2>2, ClosesType
    <3>2. posts' \subseteq R!Requests
      BY <2>2, <3>1, ConfirmedType
    <3> QED
      BY <1>5, <1>t, <2>2, <3>2, ClosesType DEF R!TypeOK, R!Accept
  <2> QED
    BY <1>5, <2>1, <2>2 DEF R!Accept
<1>6. ASSUME NEW p \in posts, NEW t \in p.targets, R!Refuse(p, t) PROVE R!TypeOK'
  <2>1. posts' \subseteq R!Requests
    BY <1>6, ConfirmedType DEF R!Refuse
  <2> QED
    BY <1>6, <1>t, <2>1 DEF R!TypeOK, R!Refuse
<1>7. ASSUME NEW id \in R!Ids, R!ClosedElsewhere(id) PROVE R!TypeOK'
  BY <1>7, <1>t, <1>c, ClosesType DEF R!TypeOK, R!ClosedElsewhere
<1>8. CASE R!OpenedElsewhere
  BY <1>8, <1>t, <1>c, OpensType DEF R!TypeOK, R!OpenedElsewhere
<1>9. CASE R!Poll
  BY <1>9, <1>t, <1>a DEF R!TypeOK, R!Poll
<1>10. ASSUME NEW ids \in lists, R!PositionsAnswered(ids) \/ R!AnswerLost(ids) PROVE R!TypeOK'
  <2>1. ids \in SUBSET R!Ids
    BY <1>t
  <2>2. R!Merged(ids) \in Seq(R!Rows)
    BY <1>t, <2>1, MergedShows
  <2> QED
    BY <1>10, <1>t, <2>2 DEF R!TypeOK, R!PositionsAnswered, R!AnswerLost
<1>11. CASE R!FiveSecondsPass
  <2>1. young' \in Seq(R!Ids \union R!Tokens)
    BY <1>11, <1>t, HeadTailProperties DEF R!FiveSecondsPass
  <2> QED
    BY <1>11, <1>t, <2>1 DEF R!TypeOK, R!FiveSecondsPass
<1>12. ASSUME NEW p \in posts, R!Answered(p) \/ R!GiveUp(p) PROVE R!TypeOK'
  <2>1. p \in R!Requests
    BY <1>t
  <2>2. [p EXCEPT !.heard = TRUE, !.by = "bare", !.prev = <<>>, !.ok = {}] \in R!Requests
    BY <2>1, EmptySeq DEF R!Requests
  <2>3. posts' \subseteq R!Requests
    BY <1>12, <1>t, <2>2 DEF R!Answered, R!GiveUp
  <2>4. positions' \in Seq(R!Rows) /\ lists' \subseteq SUBSET R!Ids
    BY <1>12, ShownAfter DEF R!Answered, R!GiveUp
  <2> QED
    BY <1>12, <1>t, <2>3, <2>4 DEF R!TypeOK, R!Answered, R!GiveUp
<1>13. ASSUME NEW id \in events, R!ClosedArrives(id) PROVE R!TypeOK'
  BY <1>13, <1>t, <1>a, <1>k DEF R!TypeOK, R!ClosedArrives, R!Without
<1> QED
  <2>1. CASE R!UserClicks
    BY <2>1, <1>2, <1>3, <1>4 DEF R!UserClicks
  <2>2. CASE R!ServerStep
    BY <2>2, <1>5, <1>6, <1>7, <1>8 DEF R!ServerStep
  <2> QED
    BY <2>1, <2>2, <1>1, <1>9, <1>10, <1>11, <1>12, <1>13 DEF R!Next, R!AnyPositions

-----------------------------------------------------------------------------
(* All of them. *)

\* A tab's sockets and chart keep what ClientsInv promises at every moment, however many
\* accounts, charts, symbols, sockets, faults and clicks there are.  In every behaviour, an
\* open candle connection streams what the charts show and has healed the holes of a drop,
\* and the chart draws just the lines its entries record.  Where no terminal is opened and no
\* account switched before the earlier trade socket has closed (tradePrompt), an event comes
\* once and from the account on screen; with a direct switch it may come twice.  Where no
\* page mounts while a price socket dials or closes (alone), the price status is the socket's.
THEOREM ClientsInvHolds == MCSpec => []ClientsInv
<1> DEFINE Inv == /\ BarsInv /\ T!TradeInv /\ P!PriceInv /\ S!SessionInv
                  /\ R!TypeOK /\ A!AccountInv /\ ChartInv
<1>1. MCInit => Inv
  BY InitBars, InitTrade, InitPrice, InitSession, InitRows, InitAccount, InitLines DEF MCInit
<1>2. Inv /\ [MCNext]_allVars => Inv'
  BY OneMachine, NextBars, NextTrade, NextPrice, NextSession, NextRows, NextAccount, NextLines
<1>3. Inv => ClientsInv
  <2>1. BarsInv => TypeOK /\ StreamsWhatIsShown /\ DropsHealed
    BY DEF BarsInv
  <2>2. T!TradeInv => T!TypeOK /\ T!EventsOnce
    BY TradeOnce DEF T!TradeInv
  <2>3. P!PriceInv => P!TypeOK /\ P!StatusHonest
    BY DEF P!PriceInv
  <2>4. S!SessionInv => S!TypeOK
    BY DEF S!SessionInv
  <2>5. A!AccountInv => A!TypeOK
    BY DEF A!AccountInv
  <2>6. ChartInv => L!TypeOK /\ L!DrawnAsRecorded
    BY DEF ChartInv, L!LinesInv
  <2> QED
    BY <2>1, <2>2, <2>3, <2>4, <2>5, <2>6 DEF ClientsInv
<1> HIDE DEF Inv
<1> QED
  BY <1>1, <1>2, <1>3, PTL DEF MCSpec

\* An answer of GET /positions is shown: newest first, each position under its own id or
\* the token of an order's row that waited for it, the rows still waiting above, no name
\* twice where none was; whichever rows of orders and closes refreshPositions finds.
THEOREM AnswersShownHolds == MCSpec => R!AnswersShown
<1> DEFINE Shows == \A ids \in lists : R!PositionsAnswered(ids) => R!ShowsAnswer(positions', ids)
<1>1. MCInit => R!TypeOK
  BY InitRows DEF MCInit
<1>2. R!TypeOK /\ [MCNext]_allVars => R!TypeOK'
  BY OneMachine, NextRows
<1>3. R!TypeOK => Shows
  <2> SUFFICES ASSUME R!TypeOK, NEW ids \in lists, R!PositionsAnswered(ids)
               PROVE  R!ShowsAnswer(positions', ids)
    OBVIOUS
  <2>1. positions \in Seq(R!Rows) /\ ids \in SUBSET R!Ids
    BY DEF R!TypeOK
  <2>2. R!ShowsAnswer(R!Merged(ids), ids)
    BY <2>1, MergedShows
  <2>3. positions' = R!Merged(ids)
    BY DEF R!PositionsAnswered
  <2> QED
    BY <2>2, <2>3
<1>4. R!TypeOK /\ [MCNext]_allVars => [Shows]_(R!vars)
  BY <1>3
<1> HIDE DEF Shows
<1> QED
  BY <1>1, <1>2, <1>4, PTL DEF MCSpec, R!AnswersShown, Shows
===============================================================================
