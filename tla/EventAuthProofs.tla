--------------------------- MODULE EventAuthProofs ---------------------------
(* What EventAuth guarantees for any number of tabs, keys and users, any   *)
(* lifetime of the event cache and either setting of the fast path.        *)
EXTENDS EventAuth, TLAPS

-----------------------------------------------------------------------------
(* The inductive invariant.                                                *)

(* A row names the user its key was signed in as, and nobody else: a key   *)
(* is anonymous for life or one user's until the row is deleted.           *)
RowsOwned ==
  \A s \in Sessions : store[s] \in {owner[s], Gone}

CacheOwned ==
  \A s \in Sessions : cache[s].who \in {owner[s], Anon}

(* Keys not drawn yet have left no trace. *)
UndrawnClean ==
  \A s \in Sessions \ used :
    store[s] = Gone /\ owner[s] = Anon /\ cache[s].who = Anon

(* The key of a login under way is known to that login alone. *)
CycledPrivate ==
  \A t \in Tabs : At(t, "cycled") =>
    /\ ev[t].skey \in used
    /\ ev[t].cand \in Users
    /\ owner[ev[t].skey] = Anon
    /\ cache[ev[t].skey].who = Anon
    /\ ev[t].skey \notin closed
    /\ \A x \in Tabs : ev[x].sk # ev[t].skey
    /\ \A x \in Tabs \ {t} : At(x, "cycled") => ev[x].skey # ev[t].skey

(* What an event took from its cookie's key belongs to that key. *)
EventsOwned ==
  \A t \in Tabs :
    /\ ev[t].sk \in used \cup {NoKey}
    /\ At(t, "idle") => ev[t] = NoEvent
    /\ At(t, "resolve") => ev[t].who = Anon /\ ev[t].skey = NoKey
    /\ ev[t].pc # "cycled" => ev[t].skey \in {ev[t].sk, NoKey}
    /\ ev[t].pc \in Resolving \cup {"handler", "flushed"} /\ ev[t].who # Anon =>
         ev[t].sk # NoKey /\ ev[t].who = owner[ev[t].sk]
    /\ ev[t].pc \in {"loaded", "handler"} /\ ~ev[t].hit /\ ev[t].skey # NoKey =>
         ev[t].row = owner[ev[t].skey]

(* An event remembers who held its key since it began. *)
SinceCovers ==
  \A t \in Tabs : ~At(t, "idle") =>
    /\ SignedIn(ev[t].sk) \subseteq since[t]
    /\ ev[t].pc \in Resolving \cup {"handler", "flushed"} /\ ev[t].who # Anon
         /\ ~ev[t].hit => ev[t].who \in since[t]
    /\ At(t, "hit") => ev[t].hit

BornCovers ==
  \A t \in Tabs :
    /\ ~At(t, "idle") => accounts \subseteq ev[t].born
    /\ Running(t) => ev[t].who \in ev[t].born \cup {Anon}

ClosedClean ==
  \A s \in closed :
    /\ s \in used
    /\ store[s] \notin Users
    /\ cache[s].who = Anon
    /\ \A t \in Tabs : ev[t].pc \in Resolving /\ ev[t].sk = s => ev[t].who = Anon

IInv ==
  /\ TypeOK
  /\ RowsOwned
  /\ CacheOwned
  /\ UndrawnClean
  /\ CycledPrivate
  /\ EventsOwned
  /\ SinceCovers
  /\ BornCovers
  /\ ClosedClean

(* Replacing one tab's event by an event keeps ev a function to events. *)
LEMMA StepTyped ==
  ASSUME TypeOK, NEW t \in Tabs, NEW e \in Event, Step(t, e)
  PROVE  ev' \in [Tabs -> Event]
  BY DEF TypeOK, Step

LEMMA Sorts ==
  /\ Anon \in Identity /\ Users \subseteq Identity
  /\ NoKey \in Key /\ Sessions \subseteq Key
  /\ \A k \in Key : k # NoKey => k \in Sessions
  BY DEF Identity, Key

LEMMA NoEventTyped == NoEvent \in Event
  BY ConstantsAssumption DEF NoEvent, Event, Phases, Identity, Key

LEMMA EventTyped ==
  ASSUME TypeOK, NEW t \in Tabs
  PROVE  /\ ev[t] \in Event
         /\ ev[t].sk \in Key /\ ev[t].skey \in Key
         /\ ev[t].who \in Identity /\ ev[t].cand \in Identity
  BY DEF TypeOK, Event

(* Types are preserved by every step. *)
LEMMA TypeStep == TypeOK /\ [Next]_vars => TypeOK'
<1> SUFFICES ASSUME TypeOK, [Next]_vars PROVE TypeOK'
  OBVIOUS
<1> USE ConstantsAssumption, Sorts
<1>1. CASE UNCHANGED vars
  BY <1>1 DEF vars, history, TypeOK
<1>2. ASSUME NEW t \in Tabs, ReadCache(t) PROVE TypeOK'
  <2>1. cache[ev[t].sk].who \in Identity
    BY <1>2, EventTyped DEF ReadCache, CacheServes, TypeOK
  <2>2. [ev[t] EXCEPT !.pc = "hit", !.hit = TRUE, !.skey = ev[t].sk,
                      !.who = cache[ev[t].sk].who] \in Event
    BY ZenonT(40), <2>1, EventTyped DEF Event, Phases
  <2> QED
    BY <1>2, <2>2, StepTyped DEF ReadCache, history, TypeOK
<1>3. ASSUME NEW t \in Tabs, LoadSession(t) PROVE TypeOK'
  <2>1. LoadedUser(ev[t].sk) \in Identity /\ LoadedKey(ev[t].sk) \in Key
    BY EventTyped DEF LoadedUser, LoadedKey, TypeOK
  <2>2. [ev[t] EXCEPT !.pc = "loaded", !.row = LoadedUser(ev[t].sk),
                      !.who = LoadedUser(ev[t].sk),
                      !.skey = LoadedKey(ev[t].sk)] \in Event
    BY ZenonT(40), <2>1, EventTyped DEF Event, Phases
  <2> QED
    BY <1>3, <2>2, StepTyped DEF LoadSession, history, TypeOK
<1>4. ASSUME NEW t \in Tabs, NEW u \in Identity, Remembered(ev[t].sk, u)
      PROVE  cache' \in [Sessions -> [who: Identity, ttl: Nat]]
  BY <1>4, EventTyped DEF Remembered, TypeOK
<1>5. ASSUME NEW t \in Tabs, EarlyRedirect(t) PROVE TypeOK'
  BY <1>4, <1>5, StepTyped, NoEventTyped
  DEF EarlyRedirect, AnsweredEarly, Finish, history, TypeOK
<1>6. ASSUME NEW t \in Tabs, EarlyAnswer(t) PROVE TypeOK'
  <2>1. [ev[t] EXCEPT !.pc = "handler"] \in Event
    BY EventTyped DEF Event, Phases
  <2> QED
    BY <1>4, <1>6, <2>1, StepTyped
    DEF EarlyAnswer, AnsweredEarly, history, TypeOK
<1>7. ASSUME NEW t \in Tabs, Serve(t) PROVE TypeOK'
  <2>1. Account(ev[t].who) \in Identity
    BY EventTyped DEF Account
  <2>2. [ev[t] EXCEPT !.pc = "handler", !.who = Account(ev[t].who)] \in Event
    BY ZenonT(40), <2>1, EventTyped DEF Event, Phases
  <2> QED
    BY <1>4, <1>7, <2>1, <2>2, StepTyped DEF Serve, history, TypeOK
<1>8. ASSUME NEW t \in Tabs, EndPlain(t) \/ LoginReject(t) \/ LogoutFinish(t)
      PROVE  TypeOK'
  BY <1>8, StepTyped, NoEventTyped
  DEF EndPlain, LoginReject, LogoutFinish, Finish, history, TypeOK
<1>9. ASSUME NEW t \in Tabs, SaveSession(t) PROVE TypeOK'
  <2>1. store' \in [Sessions -> Identity \cup {Gone}]
    BY <1>9, EventTyped
    DEF SaveSession, RowUpdated, LoadedUser, LoadedKey, Event, TypeOK
  <2> QED
    BY <1>9, <2>1, StepTyped, NoEventTyped
    DEF SaveSession, Finish, history, TypeOK
<1>10. ASSUME NEW t \in Tabs, LoginFlush(t) PROVE TypeOK'
  <2>1. [ev[t] EXCEPT !.pc = "flushed", !.skey = NoKey, !.row = Anon] \in Event
    BY ZenonT(40), EventTyped DEF Event, Phases
  <2> QED
    BY <1>10, <2>1, StepTyped DEF LoginFlush, RowDeleted, history, TypeOK
<1>11. ASSUME NEW t \in Tabs, LoginCycle(t) PROVE TypeOK'
  <2> PICK s \in Sessions \ used :
        /\ used' = used \cup {s}
        /\ RowWritten(s, Anon)
        /\ Step(t, [ev[t] EXCEPT !.pc = "cycled", !.skey = s,
                                !.who = ev[t].cand])
    BY <1>11 DEF LoginCycle
  <2>1. [ev[t] EXCEPT !.pc = "cycled", !.skey = s, !.who = ev[t].cand] \in Event
    BY ZenonT(40), EventTyped DEF Event, Phases
  <2> QED
    BY <1>11, <2>1, StepTyped DEF LoginCycle, RowWritten, history, TypeOK
<1>12. ASSUME NEW t \in Tabs, LoginSave(t) PROVE TypeOK'
  <2>1. ev' \in [Tabs -> Event]
    BY <1>12, StepTyped, NoEventTyped DEF LoginSave, Finish
  <2>2. store' \in [Sessions -> Identity \cup {Gone}]
    BY <1>12, EventTyped DEF LoginSave, RowWritten, TypeOK
  <2>3. owner' \in [Sessions -> Identity]
    BY <1>12, EventTyped DEF LoginSave, Bound, TypeOK
  <2>4. since' \in [Tabs -> SUBSET Identity]
    BY <1>12, EventTyped DEF LoginSave, Bound, TypeOK
  <2> QED
    BY <1>12, <2>1, <2>2, <2>3, <2>4 DEF LoginSave, TypeOK
<1>13. ASSUME NEW t \in Tabs, LogoutFlush(t) PROVE TypeOK'
  <2>1. [ev[t] EXCEPT !.pc = "logged_out", !.skey = NoKey, !.row = Anon,
                      !.who = Anon] \in Event
    BY ZenonT(40), EventTyped DEF Event, Phases
  <2> QED
    BY <1>13, <2>1, StepTyped DEF LogoutFlush, RowDeleted, history, TypeOK
<1>14. ASSUME NEW t \in Tabs, LogoutInvalidate(t) PROVE TypeOK'
  <2>1. [ev[t] EXCEPT !.pc = "invalidated"] \in Event
    BY EventTyped DEF Event, Phases
  <2> QED
    BY <1>14, <2>1, EventTyped, StepTyped
    DEF LogoutInvalidate, Invalidated, Miss, history, TypeOK
<1>15. ASSUME NEW t \in Tabs, ClientStep(t) PROVE TypeOK'
  <2> PICK kind \in Kinds, tier \in {"full", "auth_only"}, k \in Key, cand \in Identity :
        StartEvent(t, kind, tier, k, cand)
    BY <1>15 DEF ClientStep
  <2>1. [NoEvent EXCEPT !.pc = "resolve", !.kind = kind, !.tier = tier,
                        !.sk = k, !.cand = cand, !.born = accounts] \in Event
    BY DEF NoEvent, Event, Phases, TypeOK
  <2> QED
    BY <2>1, StepTyped DEF StartEvent, SignedIn, TypeOK
<1>16. ASSUME NEW k \in Key, NEW u \in Users, HttpLogin(k, u) PROVE TypeOK'
  BY <1>16 DEF HttpLogin, Bound, TypeOK
<1>17. ASSUME NEW k \in Sessions, HttpLogout(k) PROVE TypeOK'
  BY <1>17 DEF HttpLogout, RowDeleted, history, TypeOK
<1>18. ASSUME NEW u \in Users, DeleteUser(u) PROVE TypeOK'
  BY <1>18 DEF DeleteUser, history, TypeOK
<1>19. ASSUME Tick PROVE TypeOK'
  BY <1>19 DEF Tick, Miss, history, TypeOK
<1> QED
  BY <1>1, <1>2, <1>3, <1>5, <1>6, <1>7, <1>8, <1>9, <1>10, <1>11, <1>12,
     <1>13, <1>14, <1>15, <1>16, <1>17, <1>18, <1>19
  DEF Next, ServerStep, Environment

(* Rows are rewritten only with the user of their key. *)
LEMMA RowsOwnedStep == IInv /\ [Next]_vars => RowsOwned'
<1> SUFFICES ASSUME IInv, [Next]_vars PROVE RowsOwned'
  OBVIOUS
<1> USE ConstantsAssumption DEF IInv, TypeOK, RowsOwned, UndrawnClean,
     CycledPrivate, EventsOwned
<1>1. CASE UNCHANGED vars
  BY <1>1 DEF vars, history
<1>2. ASSUME NEW t \in Tabs,
             ReadCache(t) \/ LoadSession(t) \/ EarlyRedirect(t) \/
             EarlyAnswer(t) \/ Serve(t) \/ EndPlain(t) \/
             LoginReject(t) \/ LogoutInvalidate(t) \/ LogoutFinish(t)
      PROVE  RowsOwned'
  BY <1>2 DEF ReadCache, LoadSession, EarlyRedirect, EarlyAnswer, Serve,
     EndPlain, LoginReject, LogoutInvalidate, LogoutFinish, AnsweredEarly,
     history
<1>3. ASSUME NEW t \in Tabs, SaveSession(t) PROVE RowsOwned'
  BY <1>3 DEF SaveSession, At, Step, Finish, RowUpdated, LoadedUser,
     LoadedKey, history, Key
<1>4. ASSUME NEW t \in Tabs, LoginFlush(t) PROVE RowsOwned'
  BY <1>4 DEF LoginFlush, At, Step, RowDeleted, history, Key
<1>5. ASSUME NEW t \in Tabs, LoginCycle(t) PROVE RowsOwned'
  BY <1>5 DEF LoginCycle, At, Step, RowWritten, history, Key
<1>6. ASSUME NEW t \in Tabs, LoginSave(t) PROVE RowsOwned'
  BY <1>6 DEF LoginSave, At, Step, Finish, RowWritten, Bound, history, Key
<1>7. ASSUME NEW t \in Tabs, LogoutFlush(t) PROVE RowsOwned'
  BY <1>7 DEF LogoutFlush, At, Step, RowDeleted, history, Key
<1>8. ASSUME NEW t \in Tabs, ClientStep(t) PROVE RowsOwned'
  BY <1>8 DEF ClientStep, StartEvent, history
<1>9. ASSUME NEW k \in Key, NEW u \in Users, HttpLogin(k, u) PROVE RowsOwned'
  BY <1>9 DEF HttpLogin, Bound, InCookies, history, Key
<1>10. ASSUME NEW k \in Sessions, HttpLogout(k) PROVE RowsOwned'
  BY <1>10 DEF HttpLogout, RowDeleted, InCookies, history, Key
<1>11. ASSUME NEW u \in Users, DeleteUser(u) PROVE RowsOwned'
  BY <1>11 DEF DeleteUser, history
<1>12. ASSUME Tick PROVE RowsOwned'
  BY <1>12 DEF Tick, history
<1> QED
  BY <1>1, <1>2, <1>3, <1>4, <1>5, <1>6, <1>7, <1>8, <1>9, <1>10,
     <1>11, <1>12
  DEF Next, ServerStep, Environment

(* A cache entry is written with the user of its key, or nobody. *)
LEMMA CacheOwnedStep == IInv /\ [Next]_vars => CacheOwned'
<1> SUFFICES ASSUME IInv, [Next]_vars PROVE CacheOwned'
  OBVIOUS
<1> USE ConstantsAssumption DEF IInv, TypeOK, CacheOwned, UndrawnClean,
     CycledPrivate, EventsOwned
<1>1. CASE UNCHANGED vars
  BY <1>1 DEF vars, history
<1>2. ASSUME NEW t \in Tabs, ReadCache(t) \/ LoadSession(t) \/ EndPlain(t) \/
             SaveSession(t) \/ LoginFlush(t) \/ LoginReject(t) \/
             LoginCycle(t) \/ LogoutFlush(t) \/ LogoutFinish(t)
      PROVE  CacheOwned'
  BY <1>2 DEF ReadCache, LoadSession, EndPlain, SaveSession, LoginFlush,
     LoginReject, LoginCycle, LogoutFlush, LogoutFinish, history
<1>3. ASSUME NEW t \in Tabs, EarlyRedirect(t) PROVE CacheOwned'
  BY <1>3 DEF EarlyRedirect, AnsweredEarly, At, Step, Finish, Remembered,
     history, Key, Miss, Resolving
<1>4. ASSUME NEW t \in Tabs, EarlyAnswer(t) PROVE CacheOwned'
  BY <1>4 DEF EarlyAnswer, AnsweredEarly, At, Step, Remembered, history, Key,
     Miss, Resolving
<1>5. ASSUME NEW t \in Tabs, Serve(t) PROVE CacheOwned'
  BY <1>5 DEF Serve, Step, Remembered, Account, history, Key, Miss, Resolving
<1>6. ASSUME NEW t \in Tabs, LoginSave(t) PROVE CacheOwned'
  BY <1>6 DEF LoginSave, At, Step, Finish, RowWritten, Bound, history, Key,
     Miss, Resolving
<1>7. ASSUME NEW t \in Tabs, LogoutInvalidate(t) PROVE CacheOwned'
  BY <1>7 DEF LogoutInvalidate, At, Step, Invalidated, history, Key, Miss,
     Resolving
<1>8. ASSUME NEW t \in Tabs, ClientStep(t) PROVE CacheOwned'
  BY <1>8 DEF ClientStep, StartEvent, history
<1>9. ASSUME NEW k \in Key, NEW u \in Users, HttpLogin(k, u) PROVE CacheOwned'
  BY <1>9 DEF HttpLogin, Bound, InCookies, history, Key, Miss, Resolving
<1>10. ASSUME NEW k \in Sessions, HttpLogout(k) PROVE CacheOwned'
  BY <1>10 DEF HttpLogout, history
<1>11. ASSUME NEW u \in Users, DeleteUser(u) PROVE CacheOwned'
  BY <1>11 DEF DeleteUser, history
<1>12. ASSUME Tick PROVE CacheOwned'
  BY <1>12 DEF Tick, history, Key, Miss, Resolving
<1> QED
  BY <1>1, <1>2, <1>3, <1>4, <1>5, <1>6, <1>7, <1>8, <1>9, <1>10,
     <1>11, <1>12
  DEF Next, ServerStep, Environment

(* Only drawing a key brings it into a cookie, a row or the cache. *)
LEMMA UndrawnCleanStep == IInv /\ [Next]_vars => UndrawnClean'
<1> SUFFICES ASSUME IInv, [Next]_vars PROVE UndrawnClean'
  OBVIOUS
<1> USE ConstantsAssumption DEF IInv, TypeOK, UndrawnClean, CycledPrivate,
     EventsOwned
<1>1. CASE UNCHANGED vars
  BY <1>1 DEF vars, history
<1>2. ASSUME NEW t \in Tabs, ReadCache(t) \/ LoadSession(t) \/ EndPlain(t) \/
             LoginReject(t) \/ LogoutFinish(t)
      PROVE  UndrawnClean'
  BY <1>2 DEF ReadCache, LoadSession, EndPlain, LoginReject, LogoutFinish,
     history
<1>3. ASSUME NEW t \in Tabs, EarlyRedirect(t) PROVE UndrawnClean'
  BY <1>3 DEF EarlyRedirect, AnsweredEarly, At, Step, Finish, Remembered,
     history, Key, Event, Miss
<1>4. ASSUME NEW t \in Tabs, EarlyAnswer(t) PROVE UndrawnClean'
  BY <1>4 DEF EarlyAnswer, AnsweredEarly, At, Step, Remembered, history, Key,
     Event, Miss
<1>5. ASSUME NEW t \in Tabs, Serve(t) PROVE UndrawnClean'
  BY <1>5 DEF Serve, Step, Remembered, Account, history, Key, Event, Miss
<1>6. ASSUME NEW t \in Tabs, SaveSession(t) PROVE UndrawnClean'
  BY <1>6 DEF SaveSession, At, Step, Finish, RowUpdated, LoadedUser,
     LoadedKey, history, Key, Event, Miss
<1>7. ASSUME NEW t \in Tabs, LoginFlush(t) PROVE UndrawnClean'
  BY <1>7 DEF LoginFlush, At, Step, RowDeleted, history, Key, Event, Miss
<1>8. ASSUME NEW t \in Tabs, LoginCycle(t) PROVE UndrawnClean'
  BY <1>8 DEF LoginCycle, At, Step, RowWritten, history, Key, Event, Miss
<1>9. ASSUME NEW t \in Tabs, LoginSave(t) PROVE UndrawnClean'
  BY <1>9 DEF LoginSave, At, Step, Finish, RowWritten, Bound, history, Key,
     Event, Miss
<1>10. ASSUME NEW t \in Tabs, LogoutFlush(t) PROVE UndrawnClean'
  BY <1>10 DEF LogoutFlush, At, Step, RowDeleted, history, Key, Event, Miss
<1>11. ASSUME NEW t \in Tabs, LogoutInvalidate(t) PROVE UndrawnClean'
  BY <1>11 DEF LogoutInvalidate, At, Step, Invalidated, history, Key, Event,
     Miss
<1>12. ASSUME NEW t \in Tabs, ClientStep(t) PROVE UndrawnClean'
  BY <1>12 DEF ClientStep, StartEvent, history
<1>13. ASSUME NEW k \in Key, NEW u \in Users, HttpLogin(k, u) PROVE UndrawnClean'
  BY <1>13 DEF HttpLogin, Bound, InCookies, history, Key, Event, Miss
<1>14. ASSUME NEW k \in Sessions, HttpLogout(k) PROVE UndrawnClean'
  BY <1>14 DEF HttpLogout, RowDeleted, InCookies, history, Key, Event, Miss
<1>15. ASSUME NEW u \in Users, DeleteUser(u) PROVE UndrawnClean'
  BY <1>15 DEF DeleteUser, history
<1>16. ASSUME Tick PROVE UndrawnClean'
  BY <1>16 DEF Tick, history, Key, Event, Miss
<1> QED
  BY <1>1, <1>2, <1>3, <1>4, <1>5, <1>6, <1>7, <1>8, <1>9, <1>10,
     <1>11, <1>12, <1>13, <1>14, <1>15, <1>16
  DEF Next, ServerStep, Environment

(* The key a login drew stays its own until the login has bound it. *)
LEMMA CycledPrivateStep == IInv /\ [Next]_vars => CycledPrivate'
<1> SUFFICES ASSUME IInv, [Next]_vars PROVE CycledPrivate'
  OBVIOUS
<1> USE ConstantsAssumption DEF IInv, TypeOK, UndrawnClean, CycledPrivate,
     EventsOwned, ClosedClean
<1>1. CASE UNCHANGED vars
  BY <1>1 DEF vars, history, At
<1>2. ASSUME NEW t \in Tabs, ReadCache(t) PROVE CycledPrivate'
  BY <1>2 DEF ReadCache, At, Step, CacheServes, history, Key, Event, Miss,
     NoEvent
<1>3. ASSUME NEW t \in Tabs, LoadSession(t) PROVE CycledPrivate'
  BY <1>3 DEF LoadSession, At, Step, CacheServes, LoadedUser, LoadedKey,
     history, Key, Event, Miss, NoEvent
<1>4. ASSUME NEW t \in Tabs, EarlyRedirect(t) PROVE CycledPrivate'
  BY <1>4 DEF EarlyRedirect, AnsweredEarly, At, Step, Finish, Remembered,
     history, Key, Event, Miss, NoEvent
<1>5. ASSUME NEW t \in Tabs, EarlyAnswer(t) PROVE CycledPrivate'
  BY <1>5 DEF EarlyAnswer, AnsweredEarly, At, Step, Remembered, history, Key,
     Event, Miss, NoEvent
<1>6. ASSUME NEW t \in Tabs, Serve(t) PROVE CycledPrivate'
  BY <1>6 DEF Serve, Step, Remembered, Account, history, Key, Event, Miss, At,
     NoEvent
<1>7. ASSUME NEW t \in Tabs, EndPlain(t) PROVE CycledPrivate'
  BY <1>7 DEF EndPlain, At, Step, Finish, history, Key, Event, Miss, NoEvent
<1>8. ASSUME NEW t \in Tabs, SaveSession(t) PROVE CycledPrivate'
  BY <1>8 DEF SaveSession, At, Step, Finish, RowUpdated, LoadedUser,
     LoadedKey, history, Key, Event, Miss, NoEvent
<1>9. ASSUME NEW t \in Tabs, LoginFlush(t) PROVE CycledPrivate'
  BY <1>9 DEF LoginFlush, At, Step, RowDeleted, history, Key, Event, Miss,
     NoEvent
<1>10. ASSUME NEW t \in Tabs, LoginReject(t) PROVE CycledPrivate'
  BY <1>10 DEF LoginReject, At, Step, Finish, history, Key, Event, Miss,
     NoEvent
<1>11. ASSUME NEW t \in Tabs, LoginCycle(t) PROVE CycledPrivate'
  BY <1>11 DEF LoginCycle, At, Step, RowWritten, history, Key, Event, Miss,
     NoEvent
<1>12. ASSUME NEW t \in Tabs, LoginSave(t) PROVE CycledPrivate'
  BY <1>12 DEF LoginSave, At, Step, Finish, RowWritten, Bound, history, Key,
     Event, Miss, NoEvent
<1>13. ASSUME NEW t \in Tabs, LogoutFlush(t) PROVE CycledPrivate'
  BY <1>13 DEF LogoutFlush, At, Step, RowDeleted, history, Key, Event, Miss,
     NoEvent
<1>14. ASSUME NEW t \in Tabs, LogoutInvalidate(t) PROVE CycledPrivate'
  BY <1>14 DEF LogoutInvalidate, At, Step, Invalidated, history, Key, Event,
     Miss, NoEvent
<1>15. ASSUME NEW t \in Tabs, LogoutFinish(t) PROVE CycledPrivate'
  BY <1>15 DEF LogoutFinish, At, Step, Finish, history, Key, Event, Miss,
     NoEvent
<1>16. ASSUME NEW t \in Tabs, ClientStep(t) PROVE CycledPrivate'
  BY <1>16 DEF ClientStep, StartEvent, At, Step, InCookies, Drawn, history, Key,
     Event, Miss, NoEvent
<1>17. ASSUME NEW k \in Key, NEW u \in Users, HttpLogin(k, u) PROVE CycledPrivate'
  BY <1>17 DEF HttpLogin, Bound, InCookies, history, Key, Event, Miss, At,
     NoEvent
<1>18. ASSUME NEW k \in Sessions, HttpLogout(k) PROVE CycledPrivate'
  BY <1>18 DEF HttpLogout, history, At
<1>19. ASSUME NEW u \in Users, DeleteUser(u) PROVE CycledPrivate'
  BY <1>19 DEF DeleteUser, history, At
<1>20. ASSUME Tick PROVE CycledPrivate'
  BY SMTT(30), <1>20 DEF Tick, history, Key, Event, Miss, At, NoEvent
<1> QED
  BY <1>1, <1>2, <1>3, <1>4, <1>5, <1>6, <1>7, <1>8, <1>9, <1>10,
     <1>11, <1>12, <1>13, <1>14, <1>15, <1>16, <1>17, <1>18, <1>19, <1>20
  DEF Next, ServerStep, Environment

(* An event resolves its identity from the row or entry of its key. *)
LEMMA EventsOwnedStep == IInv /\ [Next]_vars => EventsOwned'
<1> SUFFICES ASSUME IInv, [Next]_vars PROVE EventsOwned'
  OBVIOUS
<1> USE ConstantsAssumption DEF IInv, TypeOK, RowsOwned, CacheOwned,
     UndrawnClean, CycledPrivate, EventsOwned, SinceCovers
<1>1. CASE UNCHANGED vars
  BY <1>1 DEF vars, history, At
<1>2. ASSUME NEW t \in Tabs, ReadCache(t) PROVE EventsOwned'
  BY <1>2 DEF ReadCache, At, Step, CacheServes, history, Key, Event, NoEvent,
     Resolving
<1>3. ASSUME NEW t \in Tabs, LoadSession(t) PROVE EventsOwned'
  BY <1>3 DEF LoadSession, At, Step, CacheServes, LoadedUser, LoadedKey,
     history, Key, Event, NoEvent, Resolving
<1>4. ASSUME NEW t \in Tabs, EarlyRedirect(t) PROVE EventsOwned'
  BY <1>4 DEF EarlyRedirect, AnsweredEarly, At, Step, Finish, Remembered,
     history, Key, Event, NoEvent, Resolving
<1>5. ASSUME NEW t \in Tabs, EarlyAnswer(t) PROVE EventsOwned'
  BY <1>5 DEF EarlyAnswer, AnsweredEarly, At, Step, Remembered, history, Key,
     Event, NoEvent, Resolving
<1>6. ASSUME NEW t \in Tabs, Serve(t) PROVE EventsOwned'
  BY <1>6 DEF Serve, Step, Remembered, Account, history, Key, Event, At,
     NoEvent, Resolving
<1>7. ASSUME NEW t \in Tabs, EndPlain(t) PROVE EventsOwned'
  BY <1>7 DEF EndPlain, At, Step, Finish, history, Key, Event, NoEvent,
     Resolving
<1>8. ASSUME NEW t \in Tabs, SaveSession(t) PROVE EventsOwned'
  BY <1>8 DEF SaveSession, At, Step, Finish, RowUpdated, LoadedUser,
     LoadedKey, history, Key, Event, NoEvent, Resolving
<1>9. ASSUME NEW t \in Tabs, LoginFlush(t) PROVE EventsOwned'
  BY <1>9 DEF LoginFlush, At, Step, RowDeleted, history, Key, Event, NoEvent,
     Resolving
<1>10. ASSUME NEW t \in Tabs, LoginReject(t) PROVE EventsOwned'
  BY <1>10 DEF LoginReject, At, Step, Finish, history, Key, Event, NoEvent,
     Resolving
<1>11. ASSUME NEW t \in Tabs, LoginCycle(t) PROVE EventsOwned'
  BY <1>11 DEF LoginCycle, At, Step, RowWritten, history, Key, Event, NoEvent,
     Resolving
<1>12. ASSUME NEW t \in Tabs, LoginSave(t) PROVE EventsOwned'
  BY <1>12 DEF LoginSave, At, Step, Finish, RowWritten, Bound, history, Key,
     Event, NoEvent, Resolving
<1>13. ASSUME NEW t \in Tabs, LogoutFlush(t) PROVE EventsOwned'
  BY <1>13 DEF LogoutFlush, At, Step, RowDeleted, history, Key, Event,
     NoEvent, Resolving
<1>14. ASSUME NEW t \in Tabs, LogoutInvalidate(t) PROVE EventsOwned'
  BY <1>14 DEF LogoutInvalidate, At, Step, Invalidated, history, Key, Event,
     NoEvent, Resolving
<1>15. ASSUME NEW t \in Tabs, LogoutFinish(t) PROVE EventsOwned'
  BY <1>15 DEF LogoutFinish, At, Step, Finish, history, Key, Event, NoEvent,
     Resolving
<1>16. ASSUME NEW t \in Tabs, ClientStep(t) PROVE EventsOwned'
  BY <1>16 DEF ClientStep, StartEvent, At, Step, InCookies, history, Key,
     Event, NoEvent, Resolving
<1>17. ASSUME NEW k \in Key, NEW u \in Users, HttpLogin(k, u) PROVE EventsOwned'
  BY <1>17 DEF HttpLogin, Bound, InCookies, history, Key, Event, At, NoEvent,
     Resolving
<1>18. ASSUME NEW k \in Sessions, HttpLogout(k) PROVE EventsOwned'
  BY <1>18 DEF HttpLogout, history, At
<1>19. ASSUME NEW u \in Users, DeleteUser(u) PROVE EventsOwned'
  BY <1>19 DEF DeleteUser, history, At
<1>20. ASSUME Tick PROVE EventsOwned'
  BY <1>20 DEF Tick, history, At
<1> QED
  BY <1>1, <1>2, <1>3, <1>4, <1>5, <1>6, <1>7, <1>8, <1>9, <1>10,
     <1>11, <1>12, <1>13, <1>14, <1>15, <1>16, <1>17, <1>18, <1>19, <1>20
  DEF Next, ServerStep, Environment

(* The user of a row joined since[t] when the event began or was bound. *)
LEMMA SinceCoversStep == IInv /\ [Next]_vars => SinceCovers'
<1> SUFFICES ASSUME IInv, [Next]_vars PROVE SinceCovers'
  OBVIOUS
<1> USE ConstantsAssumption DEF IInv, TypeOK, RowsOwned, CycledPrivate,
     UndrawnClean, EventsOwned, SinceCovers
<1>1. CASE UNCHANGED vars
  BY <1>1 DEF vars, history, At, SignedIn
<1>2. ASSUME NEW t \in Tabs, ReadCache(t) PROVE SinceCovers'
  BY <1>2 DEF ReadCache, At, Step, CacheServes, history, Identity, Key, Event,
     NoEvent, Resolving, SignedIn
<1>3. ASSUME NEW t \in Tabs, LoadSession(t) PROVE SinceCovers'
  BY <1>3 DEF LoadSession, At, Step, CacheServes, LoadedUser, LoadedKey,
     history, Identity, Key, Event, NoEvent, Resolving, SignedIn
<1>4. ASSUME NEW t \in Tabs, EarlyRedirect(t) PROVE SinceCovers'
  BY <1>4 DEF EarlyRedirect, AnsweredEarly, At, Step, Finish, Remembered,
     history, Identity, Key, Event, NoEvent, Resolving, SignedIn
<1>5. ASSUME NEW t \in Tabs, EarlyAnswer(t) PROVE SinceCovers'
  BY <1>5 DEF EarlyAnswer, AnsweredEarly, At, Step, Remembered, history,
     Identity, Key, Event, NoEvent, Resolving, SignedIn
<1>6. ASSUME NEW t \in Tabs, Serve(t) PROVE SinceCovers'
  BY <1>6 DEF Serve, Step, Remembered, Account, history, Identity, Key, Event,
     At, NoEvent, Resolving, SignedIn
<1>7. ASSUME NEW t \in Tabs, EndPlain(t) PROVE SinceCovers'
  BY <1>7 DEF EndPlain, At, Step, Finish, history, Identity, Key, Event,
     NoEvent, Resolving, SignedIn
<1>8. ASSUME NEW t \in Tabs, SaveSession(t) PROVE SinceCovers'
  BY <1>8 DEF SaveSession, At, Step, Finish, RowUpdated, LoadedUser,
     LoadedKey, history, Identity, Key, Event, NoEvent, Resolving, SignedIn
<1>9. ASSUME NEW t \in Tabs, LoginFlush(t) PROVE SinceCovers'
  BY <1>9 DEF LoginFlush, At, Step, RowDeleted, history, Identity, Key, Event,
     NoEvent, Resolving, SignedIn
<1>10. ASSUME NEW t \in Tabs, LoginReject(t) PROVE SinceCovers'
  BY <1>10 DEF LoginReject, At, Step, Finish, history, Identity, Key, Event,
     NoEvent, Resolving, SignedIn
<1>11. ASSUME NEW t \in Tabs, LoginCycle(t) PROVE SinceCovers'
  BY SMTT(30), <1>11 DEF LoginCycle, At, Step, RowWritten, history, Identity, Key,
     Event, NoEvent, Resolving, SignedIn
<1>12. ASSUME NEW t \in Tabs, LoginSave(t) PROVE SinceCovers'
  BY <1>12 DEF LoginSave, At, Step, Finish, RowWritten, Bound, history,
     Identity, Key, Event, NoEvent, Resolving, SignedIn
<1>13. ASSUME NEW t \in Tabs, LogoutFlush(t) PROVE SinceCovers'
  BY <1>13 DEF LogoutFlush, At, Step, RowDeleted, history, Identity, Key,
     Event, NoEvent, Resolving, SignedIn
<1>14. ASSUME NEW t \in Tabs, LogoutInvalidate(t) PROVE SinceCovers'
  BY <1>14 DEF LogoutInvalidate, At, Step, Invalidated, history, Identity,
     Key, Event, NoEvent, Resolving, SignedIn
<1>15. ASSUME NEW t \in Tabs, LogoutFinish(t) PROVE SinceCovers'
  BY <1>15 DEF LogoutFinish, At, Step, Finish, history, Identity, Key, Event,
     NoEvent, Resolving, SignedIn
<1>16. ASSUME NEW t \in Tabs, ClientStep(t) PROVE SinceCovers'
  BY <1>16 DEF ClientStep, StartEvent, At, Step, InCookies, history, Identity,
     Key, Event, NoEvent, Resolving, SignedIn
<1>17. ASSUME NEW k \in Key, NEW u \in Users, HttpLogin(k, u) PROVE SinceCovers'
  BY SMTT(30), <1>17 DEF HttpLogin, Bound, InCookies, history, Identity, Key, Event, At,
     NoEvent, Resolving, SignedIn
<1>18. ASSUME NEW k \in Sessions, HttpLogout(k) PROVE SinceCovers'
  BY <1>18 DEF HttpLogout, RowDeleted, InCookies, history, Identity, Key,
     Event, At, NoEvent, Resolving, SignedIn
<1>19. ASSUME NEW u \in Users, DeleteUser(u) PROVE SinceCovers'
  BY <1>19 DEF DeleteUser, history, At, SignedIn
<1>20. ASSUME Tick PROVE SinceCovers'
  BY <1>20 DEF Tick, history, At, SignedIn
<1> QED
  BY <1>1, <1>2, <1>3, <1>4, <1>5, <1>6, <1>7, <1>8, <1>9, <1>10,
     <1>11, <1>12, <1>13, <1>14, <1>15, <1>16, <1>17, <1>18, <1>19, <1>20
  DEF Next, ServerStep, Environment

(* The account behind every identity is looked up again. *)
LEMMA BornCoversStep == IInv /\ [Next]_vars => BornCovers'
<1> SUFFICES ASSUME IInv, [Next]_vars PROVE BornCovers'
  OBVIOUS
<1> USE ConstantsAssumption DEF IInv, TypeOK, EventsOwned, BornCovers
<1>1. CASE UNCHANGED vars
  BY <1>1 DEF vars, history, At, Running
<1>2. ASSUME NEW t \in Tabs, ReadCache(t) PROVE BornCovers'
  BY <1>2 DEF ReadCache, At, Step, CacheServes, history, NoEvent, Resolving,
     Running
<1>3. ASSUME NEW t \in Tabs, LoadSession(t) PROVE BornCovers'
  BY <1>3 DEF LoadSession, At, Step, CacheServes, LoadedUser, LoadedKey,
     history, NoEvent, Resolving, Running
<1>4. ASSUME NEW t \in Tabs, EarlyRedirect(t) PROVE BornCovers'
  BY <1>4 DEF EarlyRedirect, AnsweredEarly, At, Step, Finish, Remembered,
     history, NoEvent, Resolving, Running
<1>5. ASSUME NEW t \in Tabs, EarlyAnswer(t) PROVE BornCovers'
  BY <1>5 DEF EarlyAnswer, AnsweredEarly, At, Step, Remembered, history,
     NoEvent, Resolving, Running
<1>6. ASSUME NEW t \in Tabs, Serve(t) PROVE BornCovers'
  BY <1>6 DEF Serve, Step, Remembered, Account, history, At, NoEvent,
     Resolving, Running
<1>7. ASSUME NEW t \in Tabs, EndPlain(t) PROVE BornCovers'
  BY <1>7 DEF EndPlain, At, Step, Finish, history, NoEvent, Resolving, Running
<1>8. ASSUME NEW t \in Tabs, SaveSession(t) PROVE BornCovers'
  BY <1>8 DEF SaveSession, At, Step, Finish, RowUpdated, LoadedUser,
     LoadedKey, history, NoEvent, Resolving, Running
<1>9. ASSUME NEW t \in Tabs, LoginFlush(t) PROVE BornCovers'
  BY <1>9 DEF LoginFlush, At, Step, RowDeleted, history, NoEvent, Resolving,
     Running
<1>10. ASSUME NEW t \in Tabs, LoginReject(t) PROVE BornCovers'
  BY <1>10 DEF LoginReject, At, Step, Finish, history, NoEvent, Resolving,
     Running
<1>11. ASSUME NEW t \in Tabs, LoginCycle(t) PROVE BornCovers'
  BY <1>11 DEF LoginCycle, At, Step, RowWritten, history, NoEvent, Resolving,
     Running
<1>12. ASSUME NEW t \in Tabs, LoginSave(t) PROVE BornCovers'
  BY <1>12 DEF LoginSave, At, Step, Finish, RowWritten, Bound, history,
     NoEvent, Resolving, Running
<1>13. ASSUME NEW t \in Tabs, LogoutFlush(t) PROVE BornCovers'
  BY <1>13 DEF LogoutFlush, At, Step, RowDeleted, history, NoEvent, Resolving,
     Running
<1>14. ASSUME NEW t \in Tabs, LogoutInvalidate(t) PROVE BornCovers'
  BY <1>14 DEF LogoutInvalidate, At, Step, Invalidated, history, NoEvent,
     Resolving, Running
<1>15. ASSUME NEW t \in Tabs, LogoutFinish(t) PROVE BornCovers'
  BY <1>15 DEF LogoutFinish, At, Step, Finish, history, NoEvent, Resolving,
     Running
<1>16. ASSUME NEW t \in Tabs, ClientStep(t) PROVE BornCovers'
  BY <1>16 DEF ClientStep, StartEvent, At, Step, InCookies, history, NoEvent,
     Resolving, Running
<1>17. ASSUME NEW k \in Key, NEW u \in Users, HttpLogin(k, u) PROVE BornCovers'
  BY <1>17 DEF HttpLogin, history, At, Running
<1>18. ASSUME NEW k \in Sessions, HttpLogout(k) PROVE BornCovers'
  BY <1>18 DEF HttpLogout, history, At, Running
<1>19. ASSUME NEW u \in Users, DeleteUser(u) PROVE BornCovers'
  BY <1>19 DEF DeleteUser, history, At, NoEvent, Resolving, Running
<1>20. ASSUME Tick PROVE BornCovers'
  BY <1>20 DEF Tick, history, At, Running
<1> QED
  BY <1>1, <1>2, <1>3, <1>4, <1>5, <1>6, <1>7, <1>8, <1>9, <1>10,
     <1>11, <1>12, <1>13, <1>14, <1>15, <1>16, <1>17, <1>18, <1>19, <1>20
  DEF Next, ServerStep, Environment

(* Nothing that could know the user of a closed key writes row or cache. *)
LEMMA ClosedCleanStep == IInv /\ [Next]_vars => ClosedClean'
<1> SUFFICES ASSUME IInv, [Next]_vars PROVE ClosedClean'
  OBVIOUS
<1> USE ConstantsAssumption DEF IInv, TypeOK, RowsOwned, UndrawnClean,
     CycledPrivate, EventsOwned, ClosedClean
<1>1. CASE UNCHANGED vars
  BY <1>1 DEF vars, history
<1>2. ASSUME NEW t \in Tabs, ReadCache(t) PROVE ClosedClean'
  BY <1>2 DEF ReadCache, At, Step, CacheServes, history, Identity, Key, Event,
     NoEvent, Resolving, Miss
<1>3. ASSUME NEW t \in Tabs, LoadSession(t) PROVE ClosedClean'
  BY <1>3 DEF LoadSession, At, Step, CacheServes, LoadedUser, LoadedKey,
     history, Identity, Key, Event, NoEvent, Resolving, Miss
<1>4. ASSUME NEW t \in Tabs, EarlyRedirect(t) PROVE ClosedClean'
  BY <1>4 DEF EarlyRedirect, AnsweredEarly, At, Step, Finish, Remembered,
     history, Identity, Key, Event, NoEvent, Resolving, Miss
<1>5. ASSUME NEW t \in Tabs, EarlyAnswer(t) PROVE ClosedClean'
  BY <1>5 DEF EarlyAnswer, AnsweredEarly, At, Step, Remembered, history,
     Identity, Key, Event, NoEvent, Resolving, Miss
<1>6. ASSUME NEW t \in Tabs, Serve(t) PROVE ClosedClean'
  BY <1>6 DEF Serve, Step, Remembered, Account, history, Identity, Key, Event,
     At, NoEvent, Resolving, Miss
<1>7. ASSUME NEW t \in Tabs, EndPlain(t) PROVE ClosedClean'
  BY <1>7 DEF EndPlain, At, Step, Finish, history, Identity, Key, Event,
     NoEvent, Resolving, Miss
<1>8. ASSUME NEW t \in Tabs, SaveSession(t) PROVE ClosedClean'
  BY <1>8 DEF SaveSession, At, Step, Finish, RowUpdated, LoadedUser,
     LoadedKey, history, Identity, Key, Event, NoEvent, Resolving, Miss
<1>9. ASSUME NEW t \in Tabs, LoginFlush(t) PROVE ClosedClean'
  BY <1>9 DEF LoginFlush, At, Step, RowDeleted, history, Identity, Key, Event,
     NoEvent, Resolving, Miss
<1>10. ASSUME NEW t \in Tabs, LoginReject(t) PROVE ClosedClean'
  BY <1>10 DEF LoginReject, At, Step, Finish, history, Identity, Key, Event,
     NoEvent, Resolving, Miss
<1>11. ASSUME NEW t \in Tabs, LoginCycle(t) PROVE ClosedClean'
  BY <1>11 DEF LoginCycle, At, Step, RowWritten, history, Identity, Key,
     Event, NoEvent, Resolving, Miss
<1>12. ASSUME NEW t \in Tabs, LoginSave(t) PROVE ClosedClean'
  BY <1>12 DEF LoginSave, At, Step, Finish, RowWritten, Bound, history,
     Identity, Key, Event, NoEvent, Resolving, Miss
<1>13. ASSUME NEW t \in Tabs, LogoutFlush(t) PROVE ClosedClean'
  BY <1>13 DEF LogoutFlush, At, Step, RowDeleted, history, Identity, Key,
     Event, NoEvent, Resolving, Miss
<1>14. ASSUME NEW t \in Tabs, LogoutInvalidate(t) PROVE ClosedClean'
  BY <1>14 DEF LogoutInvalidate, At, Step, Invalidated, history, Identity,
     Key, Event, NoEvent, Resolving, Miss
<1>15. ASSUME NEW t \in Tabs, LogoutFinish(t) PROVE ClosedClean'
  BY <1>15 DEF LogoutFinish, At, Step, Finish, history, Identity, Key, Event,
     NoEvent, Resolving, Miss
<1>16. ASSUME NEW t \in Tabs, ClientStep(t) PROVE ClosedClean'
  BY <1>16 DEF ClientStep, StartEvent, At, Step, InCookies, history, Identity,
     Key, Event, NoEvent, Resolving, Miss
<1>17. ASSUME NEW k \in Key, NEW u \in Users, HttpLogin(k, u) PROVE ClosedClean'
  BY <1>17 DEF HttpLogin, Bound, InCookies, history, Identity, Key, Event, At,
     NoEvent, Resolving, Miss
<1>18. ASSUME NEW k \in Sessions, HttpLogout(k) PROVE ClosedClean'
  BY <1>18 DEF HttpLogout, RowDeleted, InCookies, history, Identity, Key,
     Event, At, NoEvent, Resolving, Miss
<1>19. ASSUME NEW u \in Users, DeleteUser(u) PROVE ClosedClean'
  BY <1>19 DEF DeleteUser, history
<1>20. ASSUME Tick PROVE ClosedClean'
  BY <1>20 DEF Tick, history, Identity, Key, Event, At, NoEvent, Resolving,
     Miss
<1> QED
  BY <1>1, <1>2, <1>3, <1>4, <1>5, <1>6, <1>7, <1>8, <1>9, <1>10,
     <1>11, <1>12, <1>13, <1>14, <1>15, <1>16, <1>17, <1>18, <1>19, <1>20
  DEF Next, ServerStep, Environment

LEMMA InitIInv == Init => IInv
<1> SUFFICES ASSUME Init PROVE IInv
  OBVIOUS
<1> USE ConstantsAssumption DEF Identity, Key
<1>1. PICK k \in Key, u \in Identity :
        /\ store = [s \in Sessions |-> IF s = k THEN u ELSE Gone]
        /\ owner = [s \in Sessions |-> IF s = k THEN u ELSE Anon]
        /\ used = {k} \cap Sessions
  BY DEF Init
<1>2. TypeOK
  BY <1>1, NoEventTyped DEF Init, TypeOK, Miss
<1>3. RowsOwned /\ CacheOwned /\ UndrawnClean
  BY <1>1 DEF Init, RowsOwned, CacheOwned, UndrawnClean, Miss
<1>4. CycledPrivate /\ EventsOwned /\ SinceCovers
  BY DEF Init, CycledPrivate, EventsOwned, SinceCovers, At, NoEvent, Resolving
<1>5. BornCovers /\ ClosedClean
  BY DEF Init, BornCovers, ClosedClean, Running, At, NoEvent
<1> QED
  BY <1>2, <1>3, <1>4, <1>5 DEF IInv

LEMMA NextIInv == IInv /\ [Next]_vars => IInv'
<1> SUFFICES ASSUME IInv, [Next]_vars PROVE IInv'
  OBVIOUS
<1>1. TypeOK'
  BY TypeStep DEF IInv
<1> QED
  BY <1>1, RowsOwnedStep, CacheOwnedStep, UndrawnCleanStep, CycledPrivateStep,
     EventsOwnedStep, SinceCoversStep, BornCoversStep, ClosedCleanStep
  DEF IInv

THEOREM Inductive == Spec => []IInv
  BY InitIInv, NextIInv, PTL DEF Spec

-----------------------------------------------------------------------------
(* The properties.                                                         *)

(* Every reachable state is well typed. *)
THEOREM TypeCorrect == Spec => []TypeOK
<1>1. IInv => TypeOK
  BY DEF IInv
<1> QED
  BY <1>1, Inductive, PTL

(* No event runs as anybody but the user its cookie's session belongs to,  *)
(* whatever the other tabs, HTTP views and the event cache do while the    *)
(* bridge resolves it (bridge_request_for_state).                          *)
THEOREM IdentitySafe == Spec => []IdentityIsOwners
<1>1. IInv => IdentityIsOwners
  BY DEF IInv, EventsOwned, IdentityIsOwners, Running
<1> QED
  BY <1>1, Inductive, PTL

(* Off the fast path an event runs as a user only if its session was that  *)
(* user's at some time since the event began.                              *)
THEOREM FreshnessSafe == Spec => []ServedWhileSignedIn
<1>1. IInv => ServedWhileSignedIn
  BY DEF IInv, SinceCovers, ServedWhileSignedIn, Running, At
<1> QED
  BY <1>1, Inductive, PTL

(* Fast path or not, an account deleted before an event began is nobody to *)
(* that event (_aresolve_cached_user looks the account up).                *)
THEOREM DeletionSafe == Spec => []DeletedUserNeverServed
<1>1. IInv => DeletedUserNeverServed
  BY DEF IInv, BornCovers, DeletedUserNeverServed
<1> QED
  BY <1>1, Inductive, PTL

(* A logout that met no other event resolving its key leaves no trace of   *)
(* the user: alogout deletes the row before the cache is invalidated.      *)
THEOREM LogoutSafe == Spec => []QuietLogoutIsFinal
<1>1. IInv => QuietLogoutIsFinal
  BY SMTT(30) DEF IInv, ClosedClean, QuietLogoutIsFinal
<1> QED
  BY <1>1, Inductive, PTL

(* A session that lost its user never gets one back: saving a session      *)
(* (session_async_save) only ever updates an existing row, with the user   *)
(* the row already names.                                                  *)
THEOREM ResurrectionImpossible == Spec => NoResurrection
<1> DEFINE Kept == \A s \in Sessions :
       owner[s] \in Users /\ store[s] \notin Users => store'[s] \notin Users
<1>1. IInv /\ [Next]_vars => [Kept]_vars
  <2> SUFFICES ASSUME IInv, Next PROVE Kept
    BY DEF Kept
  <2> USE ConstantsAssumption DEF IInv, TypeOK, RowsOwned, UndrawnClean,
        CycledPrivate, EventsOwned, Kept, Identity, Key, history
  <2>1. ASSUME NEW t \in Tabs, SaveSession(t) PROVE Kept
    BY <2>1
    DEF SaveSession, At, RowUpdated, LoadedUser, LoadedKey, Event
  <2>2. ASSUME NEW t \in Tabs, LoginCycle(t) PROVE Kept
    BY <2>2 DEF LoginCycle, RowWritten
  <2>7. ASSUME NEW t \in Tabs, LoginSave(t) PROVE Kept
    BY <2>7 DEF LoginSave, At, RowWritten
  <2>3. ASSUME NEW t \in Tabs, LoginFlush(t) \/ LogoutFlush(t) PROVE Kept
    BY <2>3 DEF LoginFlush, LogoutFlush, RowDeleted
  <2>4. ASSUME NEW k \in Key, NEW u \in Users, HttpLogin(k, u) PROVE Kept
    BY <2>4 DEF HttpLogin
  <2>5. ASSUME NEW k \in Sessions, HttpLogout(k) PROVE Kept
    BY <2>5 DEF HttpLogout, RowDeleted
  <2>6. CASE UNCHANGED store
    BY <2>6
  <2> QED
    BY ZenonT(40), <2>1, <2>2, <2>3, <2>4, <2>5, <2>6, <2>7
    DEF Next, ServerStep, ClientStep, Environment, ReadCache, LoadSession,
        EarlyRedirect, EarlyAnswer, AnsweredEarly, Serve, EndPlain, LoginReject,
        LogoutInvalidate, LogoutFinish, StartEvent, DeleteUser, Tick
<1> QED
  BY <1>1, Inductive, PTL DEF NoResurrection, Spec

-----------------------------------------------------------------------------
(* The book of sessions.                                                   *)

(* What the steps of the book need besides: only with identities cached is *)
(* an event served from the cache, under the key of its cookie; a login    *)
(* under way is of the account whose credentials were typed; and an event  *)
(* that found no row for its cookie's key is right that there is none, at  *)
(* whatever time it looks at the session again.                            *)
AsBooked ==
  \A t \in Tabs :
    /\ ev[t].hit => FastAuth
    /\ At(t, "hit") => ev[t].skey = ev[t].sk
    /\ At(t, "cycled") => ev[t].who = ev[t].cand
    /\ /\ At(t, "loaded") \/ (At(t, "handler") /\ ev[t].kind # "plain")
       /\ ev[t].sk # NoKey /\ ev[t].skey = NoKey
       => store[ev[t].sk] = Gone

LEMMA AsBookedStep == IInv /\ AsBooked /\ [Next]_vars => AsBooked'
<1> SUFFICES ASSUME IInv, AsBooked, [Next]_vars PROVE AsBooked'
  OBVIOUS
<1> USE ConstantsAssumption DEF IInv, TypeOK, RowsOwned, UndrawnClean, CycledPrivate,
     EventsOwned, AsBooked
<1>1. CASE UNCHANGED vars
  BY <1>1 DEF vars, history, At
<1>2. ASSUME NEW t \in Tabs, ReadCache(t) PROVE AsBooked'
  BY <1>2 DEF ReadCache, At, Step, CacheServes, history, Key, Event, NoEvent
<1>3. ASSUME NEW t \in Tabs, LoadSession(t) PROVE AsBooked'
  BY <1>3 DEF LoadSession, At, Step, LoadedUser, LoadedKey, history, Key, Event, NoEvent
<1>4. ASSUME NEW t \in Tabs, EarlyRedirect(t) PROVE AsBooked'
  BY <1>4 DEF EarlyRedirect, At, AnsweredEarly, Finish, Step, history, Key, Event, NoEvent
<1>5. ASSUME NEW t \in Tabs, EarlyAnswer(t) PROVE AsBooked'
  BY <1>5 DEF EarlyAnswer, At, AnsweredEarly, Step, history, Key, Event, NoEvent
<1>6. ASSUME NEW t \in Tabs, Serve(t) PROVE AsBooked'
  BY <1>6 DEF Serve, At, Step, Resolving, history, Key, Event, NoEvent
<1>7. ASSUME NEW t \in Tabs, EndPlain(t) PROVE AsBooked'
  BY <1>7 DEF EndPlain, At, Finish, Step, history, Key, Event, NoEvent
<1>8. ASSUME NEW t \in Tabs, SaveSession(t) PROVE AsBooked'
  BY <1>8 DEF SaveSession, At, Finish, Step, RowUpdated, LoadedUser, LoadedKey, history, Key, Event, NoEvent
<1>9. ASSUME NEW t \in Tabs, LoginFlush(t) PROVE AsBooked'
  BY <1>9 DEF LoginFlush, At, Step, RowDeleted, history, Key, Event, NoEvent
<1>10. ASSUME NEW t \in Tabs, LoginReject(t) PROVE AsBooked'
  BY <1>10 DEF LoginReject, At, Finish, Step, history, Key, Event, NoEvent
<1>11. ASSUME NEW t \in Tabs, LoginCycle(t) PROVE AsBooked'
  BY <1>11 DEF LoginCycle, At, Step, RowWritten, history, Key, Event, NoEvent
<1>12. ASSUME NEW t \in Tabs, LoginSave(t) PROVE AsBooked'
  BY <1>12 DEF LoginSave, At, Finish, Step, RowWritten, history, Key, Event, NoEvent
<1>13. ASSUME NEW t \in Tabs, LogoutFlush(t) PROVE AsBooked'
  BY <1>13 DEF LogoutFlush, At, Step, RowDeleted, history, Key, Event, NoEvent
<1>14. ASSUME NEW t \in Tabs, LogoutInvalidate(t) PROVE AsBooked'
  BY <1>14 DEF LogoutInvalidate, At, Step, history, Key, Event, NoEvent
<1>15. ASSUME NEW t \in Tabs, LogoutFinish(t) PROVE AsBooked'
  BY <1>15 DEF LogoutFinish, At, Finish, Step, history, Key, Event, NoEvent
<1>16. ASSUME NEW t \in Tabs, ClientStep(t) PROVE AsBooked'
  BY <1>16 DEF ClientStep, At, StartEvent, Step, InCookies, history, Key, Event, NoEvent
<1>17. ASSUME NEW k \in Key, NEW u \in Users, HttpLogin(k, u) PROVE AsBooked'
  BY <1>17 DEF HttpLogin, At, InCookies, Key, Event
<1>18. ASSUME NEW k \in Sessions, HttpLogout(k) PROVE AsBooked'
  BY <1>18 DEF HttpLogout, At, RowDeleted, Key, Event
<1>19. ASSUME NEW u \in Users, DeleteUser(u) PROVE AsBooked'
  BY <1>19 DEF DeleteUser, At
<1>20. ASSUME Tick PROVE AsBooked'
  BY <1>20 DEF Tick, At
<1> QED
  BY <1>1, <1>2, <1>3, <1>4, <1>5, <1>6, <1>7, <1>8, <1>9, <1>10,
     <1>11, <1>12, <1>13, <1>14, <1>15, <1>16, <1>17, <1>18, <1>19, <1>20
  DEF Next, ServerStep, Environment

LEMMA InitAsBooked == Init => AsBooked
  BY DEF Init, AsBooked, At, NoEvent

LEMMA BookedInductive == Spec => [](IInv /\ AsBooked)
<1>1. Init => IInv /\ AsBooked
  BY InitIInv, InitAsBooked
<1>2. IInv /\ AsBooked /\ [Next]_vars => (IInv /\ AsBooked)'
  BY NextIInv, AsBookedStep
<1> QED
  BY <1>1, <1>2, PTL DEF Spec

(* How the bridge's phases look from the book. *)
LEMMA PhaseIs ==
  /\ Phase["idle"] = "away"
  /\ Phase["resolve"] = "asking" /\ Phase["hit"] = "asking" /\ Phase["loaded"] = "asking"
  /\ Phase["handler"] = "running" /\ Phase["flushed"] = "entering"
  /\ Phase["cycled"] = "verified"
  /\ Phase["logged_out"] = "leaving" /\ Phase["invalidated"] = "leaving"
  BY DEF Phase, Phases

LEMMA NoEventAsks ==
  ASSUME NEW S
  PROVE  Asks(NoEvent, S) = Book!Away
  BY PhaseIs DEF Asks, NoEvent, Book!Away

(* A key is known to a login alone if one that has drawn it is under way. *)
LEMMA DrawnSame ==
  ASSUME TypeOK, NEW t \in Tabs, NEW e \in Event, Step(t, e), ~At(t, "cycled"), e.pc # "cycled"
  PROVE  Drawn' = Drawn
<1>1. \A x \in Tabs : ev'[x] = IF x = t THEN e ELSE ev[x]
  BY DEF Step, TypeOK
<1>2. \A x \in Tabs : At(x, "cycled")' <=> At(x, "cycled")
  BY <1>1 DEF At
<1>3. \A x \in Tabs : At(x, "cycled") => ev'[x].skey = ev[x].skey
  BY <1>1
<1> QED
  BY <1>2, <1>3 DEF Drawn

(* The page of a key stays if what the book has of it does. *)
LEMMA PagesSame ==
  ASSUME UNCHANGED <<store, used, owner>>, Drawn' = Drawn
  PROVE  Pages' = Pages
  BY DEF Pages, PageOf

(* Only one tab's event changes. *)
LEMMA Turned ==
  ASSUME TypeOK, NEW t \in Tabs, NEW e \in Event, Step(t, e),
         \A x \in Tabs \ {t} : Asks(ev[x], since'[x]) = Asks(ev[x], since[x])
  PROVE  Requests' = [Requests EXCEPT ![t] = Asks(e, since'[t])]
<1>1. \A x \in Tabs : ev'[x] = IF x = t THEN e ELSE ev[x]
  BY DEF Step, TypeOK
<1>2. \A x \in Tabs : Asks(ev'[x], since'[x]) =
         IF x = t THEN Asks(e, since'[t]) ELSE Asks(ev[x], since[x])
  BY <1>1
<1> QED
  BY <1>2 DEF Requests

(* The page of a cookie's key is not blank, and its holder is whom its row *)
(* is signed in as.                                                        *)
LEMMA CookiePages ==
  ASSUME IInv, NEW k \in Key
  PROVE  /\ k \in InCookies <=> Book!InCookie(k)
         /\ k \in InCookies => Book!Holder(k) = SignedIn(k)
<1> USE ConstantsAssumption DEF IInv, TypeOK
<1>1. CASE k = NoKey
  BY <1>1 DEF InCookies, Book!InCookie, Book!Holder, SignedIn
<1>2. CASE k # NoKey
  <2>1. k \in Sessions /\ Pages[k] = PageOf(k)
    BY <1>2 DEF Key, Pages
  <2>2. k \in InCookies <=> k \in used /\ k \notin Drawn
    BY <1>2 DEF InCookies
  <2>3. Book!InCookie(k) <=> Pages[k].state # "blank"
    BY <1>2 DEF Book!InCookie
  <2>4. k \in InCookies <=> Book!InCookie(k)
    BY <2>1, <2>2, <2>3 DEF PageOf
  <2>5. ASSUME k \in InCookies PROVE Book!Holder(k) = SignedIn(k)
    <3>1. Pages[k].state = IF store[k] = Gone THEN "closed" ELSE "open"
      BY <2>1, <2>2, <2>5 DEF PageOf
    <3>2. Pages[k].of = owner[k]
      BY <2>1 DEF PageOf
    <3>3. Book!Holder(k) = IF store[k] # Gone THEN {owner[k]} \cap Users ELSE {}
      BY <1>2, <3>1, <3>2 DEF Book!Holder
    <3>4. SignedIn(k) = {store[k]} \cap Users
      BY <2>1 DEF SignedIn
    <3>5. store[k] \in {owner[k], Gone}
      BY <2>1 DEF RowsOwned
    <3> QED
      BY <3>3, <3>4, <3>5
  <2> QED
    BY <2>4, <2>5
<1> QED
  BY <1>1, <1>2

(* Closing a page. *)
LEMMA PagesClosed ==
  ASSUME IInv, NEW k \in Key, k \in used \cup {NoKey}, k \notin Drawn, Drawn' = Drawn,
         NEW j \in {k, NoKey}, j # k => store[k] = Gone,
         RowDeleted(j), UNCHANGED <<used, owner>>
  PROVE  Pages' = Book!Closed(Pages, k)
<1> USE ConstantsAssumption DEF IInv, TypeOK
<1>1. \A s \in Sessions : store'[s] = IF s = k THEN Gone ELSE store[s]
  BY DEF RowDeleted
<1>2. ASSUME NEW s \in Sessions, s # k
      PROVE  Pages'[s] = Pages[s]
  BY <1>1, <1>2 DEF Pages, PageOf
<1>3. ASSUME k \in Sessions
      PROVE  Pages'[k] = [Pages[k] EXCEPT !.state = "closed"]
  <2>1. k \in used' /\ k \notin Drawn' /\ store'[k] = Gone /\ owner'[k] = owner[k]
    BY <1>1, <1>3
  <2>2. Pages'[k] = [state |-> "closed", of |-> owner[k]]
    BY <1>3, <2>1 DEF Pages, PageOf
  <2> QED
    BY <1>3, <2>2 DEF Pages, PageOf
<1>4. Pages' = [s \in Sessions |-> Pages'[s]]
  BY DEF Pages
<1> QED
  BY <1>2, <1>3, <1>4 DEF Book!Closed

-----------------------------------------------------------------------------
(* Every step is a step of the book, or none.                              *)

(* Nothing the book knows of. *)
LEMMA BookStands ==
  ASSUME Pages' = Pages, Requests' = Requests, accounts' = accounts
  PROVE  UNCHANGED Book!bookVars
  BY DEF Book!bookVars

(* An event is seen to go on, no page and no account changing: the shape   *)
(* of most steps.                                                          *)
LEMMA Turns ==
  ASSUME TypeOK, NEW t \in Tabs, NEW e \in Event, Step(t, e), ~At(t, "cycled"), e.pc # "cycled",
         UNCHANGED <<store, used, owner, since>>
  PROVE  /\ Pages' = Pages
         /\ Requests' = [Requests EXCEPT ![t] = Asks(e, since[t])]
<1>1. Drawn' = Drawn
  BY DrawnSame
<1>2. Pages' = Pages
  BY <1>1, PagesSame
<1>3. Requests' = [Requests EXCEPT ![t] = Asks(e, since'[t])]
  BY Turned
<1> QED
  BY <1>2, <1>3

LEMMA RequestOf ==
  ASSUME NEW t \in Tabs
  PROVE  /\ Requests[t] = Asks(ev[t], since[t])
         /\ Requests[t].at = Phase[ev[t].pc] /\ Requests[t].key = ev[t].sk
         /\ ev[t].pc # "idle" => Requests[t].may = since[t]
         /\ ev[t].pc \in {"handler", "cycled"} => Requests[t].who = ev[t].who
  BY DEF Requests, Asks

(* Nothing is seen of an event that resolves its session, or drops what    *)
(* was cached of it.                                                       *)
LEMMA Unseen ==
  ASSUME TypeOK, NEW t \in Tabs, NEW e \in Event, Step(t, e), ~At(t, "cycled"), e.pc # "cycled",
         Asks(e, since[t]) = Asks(ev[t], since[t]),
         UNCHANGED <<accounts, store, used, owner, since>>
  PROVE  UNCHANGED Book!bookVars
<1>1. Pages' = Pages /\ Requests' = [Requests EXCEPT ![t] = Asks(e, since[t])]
  BY Turns
<1>2. [Requests EXCEPT ![t] = Requests[t]] = Requests
  BY DEF Requests
<1>3. Requests' = Requests
  BY <1>1, <1>2, RequestOf
<1> QED
  BY <1>1, <1>3, BookStands

LEMMA UnseenSteps ==
  ASSUME IInv, NEW t \in Tabs, ReadCache(t) \/ LoadSession(t) \/ LogoutInvalidate(t)
  PROVE  UNCHANGED Book!bookVars
<1> USE ConstantsAssumption, EventTyped, Sorts
<1>0. TypeOK
  BY DEF IInv
<1>1. CASE ReadCache(t)
  <2> DEFINE e == [ev[t] EXCEPT !.pc = "hit", !.hit = TRUE, !.skey = ev[t].sk,
                      !.who = cache[ev[t].sk].who]
  <2>1. cache[ev[t].sk].who \in Identity
    BY <1>0, <1>1 DEF ReadCache, CacheServes, TypeOK
  <2>2. e \in Event
    BY ZenonT(40), <1>0, <2>1 DEF Event, Phases
  <2>3. Step(t, e) /\ At(t, "resolve") /\ UNCHANGED <<accounts, store, used, owner, since>>
    BY <1>1 DEF ReadCache, history
  <2>4. e.pc = "hit" /\ e.sk = ev[t].sk
    BY <1>0 DEF Event
  <2>5. Asks(e, since[t]) = Asks(ev[t], since[t])
    BY <2>3, <2>4, PhaseIs DEF Asks, At
  <2> HIDE DEF e
  <2> QED
    BY <1>0, <2>2, <2>3, <2>4, <2>5, Unseen DEF At
<1>2. CASE LoadSession(t)
  <2> DEFINE e == [ev[t] EXCEPT !.pc = "loaded", !.row = LoadedUser(ev[t].sk),
                      !.who = LoadedUser(ev[t].sk), !.skey = LoadedKey(ev[t].sk)]
  <2>1. LoadedUser(ev[t].sk) \in Identity /\ LoadedKey(ev[t].sk) \in Key
    BY <1>0 DEF LoadedUser, LoadedKey, TypeOK
  <2>2. e \in Event
    BY ZenonT(40), <1>0, <2>1 DEF Event, Phases
  <2>3. Step(t, e) /\ At(t, "resolve") /\ UNCHANGED <<accounts, store, used, owner, since>>
    BY <1>2 DEF LoadSession, history
  <2>4. e.pc = "loaded" /\ e.sk = ev[t].sk
    BY <1>0 DEF Event
  <2>5. Asks(e, since[t]) = Asks(ev[t], since[t])
    BY <2>3, <2>4, PhaseIs DEF Asks, At
  <2> HIDE DEF e
  <2> QED
    BY <1>0, <2>2, <2>3, <2>4, <2>5, Unseen DEF At
<1>3. CASE LogoutInvalidate(t)
  <2> DEFINE e == [ev[t] EXCEPT !.pc = "invalidated"]
  <2>2. e \in Event
    BY <1>0 DEF Event, Phases
  <2>3. Step(t, e) /\ At(t, "logged_out") /\ UNCHANGED <<accounts, store, used, owner, since>>
    BY <1>3 DEF LogoutInvalidate, history
  <2>4. e.pc = "invalidated" /\ e.sk = ev[t].sk
    BY <1>0 DEF Event
  <2>5. Asks(e, since[t]) = Asks(ev[t], since[t])
    BY <2>3, <2>4, PhaseIs DEF Asks, At
  <2> HIDE DEF e
  <2> QED
    BY <1>0, <2>2, <2>3, <2>4, <2>5, Unseen DEF At
<1> QED
  BY <1>1, <1>2, <1>3

(* An event that ends anywhere but in the middle of a sign-in. *)
LEMMA Ends ==
  ASSUME IInv, NEW t \in Tabs, Finish(t), ev[t].pc \notin {"idle", "cycled"},
         UNCHANGED <<accounts, store, used, owner, since>>
  PROVE  Book!BookNext
<1>1. TypeOK /\ NoEvent.pc = "idle" /\ ev[t].pc \in Phases
  BY EventTyped DEF IInv, NoEvent, Event
<1>2. Pages' = Pages /\ Requests' = [Requests EXCEPT ![t] = Asks(NoEvent, since[t])]
  BY <1>1, NoEventTyped, Turns DEF Finish, At
<1>3. Requests' = [Requests EXCEPT ![t] = Book!Away]
  BY <1>2, NoEventAsks
<1>4. Requests[t].at \in {"asking", "running", "entering", "leaving"}
  <2>1. Requests[t].at = Phase[ev[t].pc]
    BY RequestOf
  <2>2. ev[t].pc \in {"resolve", "hit", "loaded", "handler", "flushed", "logged_out", "invalidated"}
    BY <1>1 DEF Phases
  <2>3. \A p \in {"resolve", "hit", "loaded", "handler", "flushed", "logged_out", "invalidated"} :
          Phase[p] \in {"asking", "running", "entering", "leaving"}
    BY PhaseIs
  <2> QED
    BY <2>1, <2>2, <2>3
<1>5. Book!Done(t)
  BY <1>2, <1>3, <1>4 DEF Book!Done, Book!Becomes
<1> QED
  BY <1>5 DEF Book!BookNext

(* Saving a session writes what its row says. *)
LEMMA SavedAsRead ==
  ASSUME IInv, NEW t \in Tabs, SaveSession(t)
  PROVE  store' = store
<1> USE DEF IInv, TypeOK
<1> DEFINE k == ev[t].skey
<1>1. CASE LoadedKey(k) = NoKey
  BY <1>1 DEF SaveSession, RowUpdated
<1>2. CASE LoadedKey(k) # NoKey
  <2>1. k \in Sessions /\ store[k] # Gone
    BY <1>2, EventTyped DEF LoadedKey, Key
  <2>2. store[k] = owner[k]
    BY <2>1 DEF RowsOwned
  <2>3. (IF ev[t].hit THEN LoadedUser(k) ELSE ev[t].row) = store[k]
    BY <1>2, <2>1, <2>2, ConstantsAssumption DEF SaveSession, At, LoadedUser, EventsOwned
  <2>4. store' = [store EXCEPT ![k] = store[k]]
    BY <1>2, <2>3 DEF SaveSession, RowUpdated
  <2> QED
    BY <2>1, <2>4
<1> QED
  BY <1>1, <1>2

LEMMA EndingSteps ==
  ASSUME IInv, NEW t \in Tabs,
         \/ EarlyRedirect(t) \/ EndPlain(t) \/ SaveSession(t) \/ LoginReject(t)
         \/ LogoutFinish(t)
  PROVE  Book!BookNext
<1>1. SaveSession(t) => store' = store
  BY SavedAsRead
<1>2. Finish(t) /\ ev[t].pc \notin {"idle", "cycled"} /\ UNCHANGED <<accounts, store, used, owner, since>>
  BY <1>1 DEF EarlyRedirect, AnsweredEarly, EndPlain, SaveSession, LoginReject, LogoutFinish,
     At, history
<1> QED
  BY <1>2, Ends

(* An event begins with a key of a cookie, and knows who held it then. *)
LEMMA Begins ==
  ASSUME IInv, NEW t \in Tabs, NEW kind \in Kinds, NEW tier \in {"full", "auth_only"},
         NEW k \in Key, NEW cand \in Identity, StartEvent(t, kind, tier, k, cand)
  PROVE  Book!BookNext
<1> DEFINE e == [NoEvent EXCEPT !.pc = "resolve", !.kind = kind, !.tier = tier,
                   !.sk = k, !.cand = cand, !.born = accounts]
<1>1. TypeOK /\ At(t, "idle") /\ k \in InCookies /\ Step(t, e)
      /\ UNCHANGED <<accounts, store, used, owner>>
      /\ since' = [since EXCEPT ![t] = SignedIn(k)]
  BY DEF IInv, StartEvent
<1>2. e \in Event /\ e.pc = "resolve" /\ e.sk = k
  BY <1>1, NoEventTyped, Sorts DEF NoEvent, Event, Phases, TypeOK
<1> HIDE DEF e
<1>3. Pages' = Pages
  <2>1. Drawn' = Drawn
    BY <1>1, <1>2, DrawnSame DEF At
  <2> QED
    BY <1>1, <2>1, PagesSame
<1>4. Requests' = [Requests EXCEPT ![t] = Asks(e, since'[t])]
  <2>1. \A x \in Tabs \ {t} : Asks(ev[x], since'[x]) = Asks(ev[x], since[x])
    BY <1>1 DEF TypeOK
  <2> QED
    BY <1>1, <1>2, <2>1, Turned
<1>5. since'[t] = Book!Holder(k)
  BY <1>1, CookiePages DEF TypeOK
<1>6. Asks(e, since'[t]) = [at |-> "asking", key |-> k, may |-> Book!Holder(k), who |-> Anon]
  BY <1>2, <1>5, PhaseIs DEF Asks
<1>7. Requests[t].at = "away"
  BY <1>1, RequestOf, PhaseIs DEF At
<1>8. Book!InCookie(k)
  BY <1>1, CookiePages
<1>9. Book!Ask(t, k)
  BY <1>1, <1>3, <1>4, <1>6, <1>7, <1>8 DEF Book!Ask, Book!Becomes
<1> QED
  BY <1>9 DEF Book!BookNext, Key

(* It is answered as somebody the book allows. *)
LEMMA Answered ==
  ASSUME IInv, NEW t \in Tabs, NEW e \in Event, Step(t, e), ev[t].pc \in {"resolve", "hit", "loaded"},
         e.pc = "handler", e.sk = ev[t].sk, e.who \in Book!MayServe(Requests[t]),
         UNCHANGED <<accounts, store, used, owner, since>>
  PROVE  Book!BookNext
<1>1. TypeOK /\ ~At(t, "cycled") /\ e.pc # "cycled"
  BY DEF IInv, At
<1>2. Pages' = Pages /\ Requests' = [Requests EXCEPT ![t] = Asks(e, since[t])]
  BY <1>1, Turns
<1>3. Requests[t].at = "asking" /\ Requests[t].key = ev[t].sk /\ Requests[t].may = since[t]
  BY RequestOf, PhaseIs
<1>4. Asks(e, since[t]) = [at |-> "running", key |-> ev[t].sk, may |-> since[t], who |-> e.who]
  BY PhaseIs DEF Asks
<1>5. Asks(e, since[t]) = Book!As(Requests[t], "running", e.who)
  BY <1>3, <1>4 DEF Book!As
<1>7. e.who \in Users \cup {Anon}
  BY DEF Event, Identity
<1>8. Book!Answer(t, e.who)
  BY <1>2, <1>3, <1>5 DEF Book!Answer, Book!Becomes
<1> QED
  BY <1>7, <1>8 DEF Book!BookNext

LEMMA NobodyServed ==
  ASSUME NEW r
  PROVE  Anon \in Book!MayServe(r)
  BY DEF Book!MayServe

LEMMA AnsweringSteps ==
  ASSUME IInv, AsBooked, NEW t \in Tabs, EarlyAnswer(t) \/ Serve(t)
  PROVE  Book!BookNext
<1> USE ConstantsAssumption
<1>0. TypeOK
  BY DEF IInv
<1>1. CASE EarlyAnswer(t)
  <2> DEFINE e == [ev[t] EXCEPT !.pc = "handler"]
  <2>1. e \in Event
    BY <1>0, EventTyped DEF Event, Phases
  <2>2. e.pc = "handler" /\ e.sk = ev[t].sk /\ e.who = ev[t].who
    BY <1>0, EventTyped DEF Event
  <2>3. Step(t, e) /\ ev[t].pc = "resolve" /\ UNCHANGED <<accounts, store, used, owner, since>>
    BY <1>1 DEF EarlyAnswer, AnsweredEarly, At, history
  <2> HIDE DEF e
  <2>4. e.who = Anon
    BY <2>2, <2>3 DEF IInv, EventsOwned, At
  <2>5. e.who \in Book!MayServe(Requests[t])
    BY <2>4, NobodyServed
  <2> QED
    BY <2>1, <2>2, <2>3, <2>5, Answered
<1>2. CASE Serve(t)
  <2> DEFINE u == Account(ev[t].who)
  <2>1. u # Anon => u = ev[t].who /\ u \in accounts
    BY DEF Account
  <2>2. u \in Identity
    BY <1>0, EventTyped, Sorts DEF Account
  <2>3. Step(t, [ev[t] EXCEPT !.pc = "handler", !.who = u]) /\ ev[t].pc \in Resolving
        /\ UNCHANGED <<accounts, store, used, owner, since>>
    BY <1>2 DEF Serve, history
  <2> HIDE DEF u
  <2> DEFINE e == [ev[t] EXCEPT !.pc = "handler", !.who = u]
  <2>4. e \in Event
    BY ZenonT(40), <1>0, <2>2, EventTyped DEF Event, Phases
  <2>5. e.pc = "handler" /\ e.sk = ev[t].sk /\ e.who = u
    BY <1>0, EventTyped DEF Event
  <2>6. Step(t, e)
    BY <2>3
  <2> HIDE DEF e
  <2>7. ASSUME u # Anon PROVE u \in Book!MayServe(Requests[t])
    <3>1. u = ev[t].who /\ u \in accounts /\ ev[t].sk # NoKey /\ u = owner[ev[t].sk]
      BY <2>1, <2>3, <2>7 DEF IInv, EventsOwned
    <3>2. ev[t].sk \in Sessions /\ Pages[ev[t].sk].of = owner[ev[t].sk]
      BY <1>0, <3>1, EventTyped, Sorts DEF Pages, PageOf
    <3>3. Requests[t].key = ev[t].sk /\ Requests[t].may = since[t]
      BY <2>3, RequestOf DEF Resolving
    <3>4. CASE ~ev[t].hit
      <4>1. u \in since[t]
        BY <2>3, <2>7, <3>1, <3>4 DEF IInv, SinceCovers, Resolving, At
      <4> QED
        BY <3>1, <3>3, <4>1 DEF Book!MayServe
    <3>5. CASE ev[t].hit
      <4>1. FastAuth
        BY <3>5 DEF AsBooked
      <4> QED
        BY <3>1, <3>2, <3>3, <4>1 DEF Book!MayServe
    <3> QED
      BY <3>4, <3>5
  <2>8. u \in Book!MayServe(Requests[t])
    BY <2>7, NobodyServed
  <2> QED
    BY <2>3, <2>4, <2>5, <2>6, <2>8, Answered DEF Resolving
<1> QED
  BY <1>1, <1>2

(* A login or a logout closes the page the event came with: what it loaded *)
(* is the session of its cookie's key, or there is no row under that key.  *)
LEMMA Leaves ==
  ASSUME IInv, AsBooked, NEW t \in Tabs, NEW e \in Event, Step(t, e),
         At(t, "handler"), ev[t].kind # "plain", RowDeleted(ev[t].skey),
         e.pc \in {"flushed", "logged_out"}, e.sk = ev[t].sk,
         UNCHANGED <<accounts, used, owner, since>>
  PROVE  Book!BookNext
<1> USE ConstantsAssumption
<1>1. TypeOK /\ ~At(t, "cycled") /\ e.pc # "cycled"
  BY DEF IInv, At
<1>2. Drawn' = Drawn
  BY <1>1, DrawnSame
<1>3. ev[t].sk \in Key /\ ev[t].sk \in used \cup {NoKey} /\ ev[t].sk \notin Drawn
  BY <1>1, EventTyped DEF IInv, EventsOwned, CycledPrivate, Drawn
<1>4. ev[t].skey \in {ev[t].sk, NoKey}
  BY <1>1 DEF IInv, EventsOwned, At
<1>5. ev[t].skey # ev[t].sk => store[ev[t].sk] = Gone
  BY <1>4 DEF AsBooked
<1>6. Pages' = Book!Closed(Pages, ev[t].sk)
  BY <1>2, <1>3, <1>4, <1>5, PagesClosed
<1>7. Requests' = [Requests EXCEPT ![t] = Asks(e, since[t])]
  <2>1. Requests' = [Requests EXCEPT ![t] = Asks(e, since'[t])]
    BY <1>1, Turned
  <2> QED
    BY <2>1
<1>8. Requests[t].at = "running" /\ Requests[t].key = ev[t].sk /\ Requests[t].may = since[t]
  BY RequestOf, PhaseIs DEF At
<1>9. PICK to \in {"entering", "leaving"} : to = Phase[e.pc]
  BY PhaseIs
<1>10. Asks(e, since[t]) = Book!As(Requests[t], to, Anon)
  BY <1>8, <1>9 DEF Asks, Book!As
<1>11. Book!Leave(t, to)
  BY <1>6, <1>7, <1>8, <1>10 DEF Book!Leave, Book!Becomes
<1> QED
  BY <1>11 DEF Book!BookNext

LEMMA LeavingSteps ==
  ASSUME IInv, AsBooked, NEW t \in Tabs, LoginFlush(t) \/ LogoutFlush(t)
  PROVE  Book!BookNext
<1>0. TypeOK
  BY DEF IInv
<1>1. CASE LoginFlush(t)
  <2> DEFINE e == [ev[t] EXCEPT !.pc = "flushed", !.skey = NoKey, !.row = Anon]
  <2>1. e \in Event
    BY <1>0, EventTyped, Sorts DEF Event, Phases
  <2>2. e.pc = "flushed" /\ e.sk = ev[t].sk
    BY <1>0, EventTyped DEF Event
  <2>3. /\ Step(t, e) /\ At(t, "handler") /\ ev[t].kind # "plain" /\ RowDeleted(ev[t].skey)
        /\ UNCHANGED <<accounts, used, owner, since>>
    BY <1>1 DEF LoginFlush, history
  <2> HIDE DEF e
  <2> QED
    BY <2>1, <2>2, <2>3, Leaves
<1>2. CASE LogoutFlush(t)
  <2> DEFINE e == [ev[t] EXCEPT !.pc = "logged_out", !.skey = NoKey, !.row = Anon, !.who = Anon]
  <2>1. e \in Event
    BY <1>0, EventTyped, Sorts DEF Event, Phases
  <2>2. e.pc = "logged_out" /\ e.sk = ev[t].sk
    BY <1>0, EventTyped DEF Event
  <2>3. /\ Step(t, e) /\ At(t, "handler") /\ ev[t].kind # "plain" /\ RowDeleted(ev[t].skey)
        /\ UNCHANGED <<accounts, used, owner, since>>
    BY <1>2 DEF LogoutFlush, history
  <2> HIDE DEF e
  <2> QED
    BY <2>1, <2>2, <2>3, Leaves
<1> QED
  BY <1>1, <1>2

(* Credentials are verified.  The key drawn for the new session has a row  *)
(* of nobody's, and no page yet: nobody else knows it.                     *)
LEMMA Verifies ==
  ASSUME IInv, NEW t \in Tabs, LoginCycle(t)
  PROVE  Book!BookNext
<1>0. PICK s \in Sessions \ used :
        /\ used' = used \cup {s}
        /\ RowWritten(s, Anon)
        /\ Step(t, [ev[t] EXCEPT !.pc = "cycled", !.skey = s, !.who = ev[t].cand])
  BY Zenon DEF LoginCycle
<1> USE ConstantsAssumption
<1> DEFINE e == [ev[t] EXCEPT !.pc = "cycled", !.skey = s, !.who = ev[t].cand]
<1>1. TypeOK /\ At(t, "flushed") /\ ev[t].cand \in accounts /\ UNCHANGED <<accounts, owner, since>>
  BY DEF IInv, LoginCycle, history
<1>2. e \in Event
  BY ZenonT(40), <1>1, EventTyped, Sorts DEF Event, Phases
<1>3. e.pc = "cycled" /\ e.sk = ev[t].sk /\ e.skey = s /\ e.who = ev[t].cand
  BY <1>1, EventTyped DEF Event
<1> HIDE DEF e
<1>4. Step(t, e)
  BY <1>0 DEF e
<1>5. \A x \in Tabs : ev'[x] = IF x = t THEN e ELSE ev[x]
  BY <1>1, <1>4 DEF Step, TypeOK
<1>6. Drawn' = Drawn \cup {s}
  <2>1. \A k : k \in Drawn' <=> \E x \in Tabs : ev'[x].pc = "cycled" /\ ev'[x].skey = k
    BY DEF Drawn, At
  <2>2. \A k : k \in Drawn <=> \E x \in Tabs : ev[x].pc = "cycled" /\ ev[x].skey = k
    BY DEF Drawn, At
  <2>3. ev[t].pc # "cycled"
    BY <1>1 DEF At
  <2>4. \A k : k \in Drawn' <=> k \in Drawn \cup {s}
    BY <1>3, <1>5, <2>1, <2>2, <2>3
  <2> QED
    BY <2>4
<1>7. \A k \in Sessions : k # s => store'[k] = store[k]
  BY <1>0, <1>1 DEF RowWritten, TypeOK
<1>8. \A k \in Sessions : PageOf(k)' = PageOf(k)
  BY <1>0, <1>1, <1>6, <1>7 DEF PageOf
<1>9. Pages' = Pages
  BY <1>8 DEF Pages
<1>10. Requests' = [Requests EXCEPT ![t] = Asks(e, since[t])]
  <2>1. Requests' = [Requests EXCEPT ![t] = Asks(e, since'[t])]
    BY <1>1, <1>2, <1>4, Turned
  <2> QED
    BY <1>1, <2>1
<1>11. Requests[t].at = "entering" /\ Requests[t].key = ev[t].sk /\ Requests[t].may = since[t]
  BY <1>1, RequestOf, PhaseIs DEF At
<1>12. Asks(e, since[t]) = Book!As(Requests[t], "verified", ev[t].cand)
  BY <1>3, <1>11, PhaseIs DEF Asks, Book!As
<1>13. Book!Verify(t, ev[t].cand)
  BY <1>1, <1>9, <1>10, <1>11, <1>12 DEF Book!Verify, Book!Becomes
<1>14. ev[t].cand \in Users \cup {Anon}
  BY <1>1, EventTyped DEF Identity
<1> QED
  BY <1>13, <1>14 DEF Book!BookNext

(* The new session is bound to its user, and the key's page opened. *)
LEMMA Enters ==
  ASSUME IInv, AsBooked, NEW t \in Tabs, LoginSave(t)
  PROVE  Book!BookNext
<1> USE ConstantsAssumption
<1> DEFINE s == ev[t].skey
           u == ev[t].cand
<1>1. /\ TypeOK /\ At(t, "cycled") /\ Step(t, NoEvent)
      /\ store' = [store EXCEPT ![s] = u] /\ owner' = [owner EXCEPT ![s] = u]
      /\ since' = [x \in Tabs |-> IF ev[x].pc # "idle" /\ ev[x].sk = s
                                  THEN since[x] \cup {u} ELSE since[x]]
      /\ UNCHANGED <<accounts, used>>
  BY DEF IInv, LoginSave, RowWritten, Bound, Finish
<1>2. /\ s \in used /\ u \in Users /\ owner[s] = Anon
      /\ \A x \in Tabs : ev[x].sk # s
      /\ \A x \in Tabs \ {t} : At(x, "cycled") => ev[x].skey # s
  BY <1>1 DEF IInv, CycledPrivate
<1>3. s \in Sessions /\ ev[t].who = u
  BY <1>1, <1>2 DEF TypeOK, AsBooked
<1> HIDE DEF s, u
<1>4. \A x \in Tabs : ev'[x] = IF x = t THEN NoEvent ELSE ev[x]
  BY <1>1 DEF Step, TypeOK
<1>5. s \in Drawn /\ Drawn' = Drawn \ {s}
  <2>1. \A k : k \in Drawn' <=> \E x \in Tabs : ev'[x].pc = "cycled" /\ ev'[x].skey = k
    BY DEF Drawn, At
  <2>2. \A k : k \in Drawn <=> \E x \in Tabs : ev[x].pc = "cycled" /\ ev[x].skey = k
    BY DEF Drawn, At
  <2>3. ev[t].pc = "cycled" /\ ev[t].skey = s /\ NoEvent.pc # "cycled"
    BY <1>1 DEF At, s, NoEvent
  <2>4. \A x \in Tabs \ {t} : ev[x].pc = "cycled" => ev[x].skey # s
    BY <1>2 DEF At
  <2>5. s \in Drawn
    BY <2>2, <2>3
  <2>6. \A k : k \in Drawn' <=> k \in Drawn \ {s}
    BY <1>4, <2>1, <2>2, <2>3, <2>4
  <2> QED
    BY <2>5, <2>6
<1>6. Pages[s].state = "blank"
  BY <1>3, <1>5 DEF Pages, PageOf
<1>7. Pages' = Book!Opened(Pages, s, u)
  <2>1. \A k \in Sessions : PageOf(k)' = IF k = s THEN [state |-> "open", of |-> u] ELSE PageOf(k)
    <3>1. store'[s] = u /\ u # Gone /\ owner'[s] = u /\ s \in used' /\ s \notin Drawn'
      BY <1>1, <1>2, <1>3, <1>5 DEF TypeOK
    <3>2. \A k \in Sessions : k # s =>
            store'[k] = store[k] /\ owner'[k] = owner[k] /\ (k \in Drawn' <=> k \in Drawn)
      BY <1>1, <1>5 DEF TypeOK
    <3> QED
      BY <1>1, <3>1, <3>2 DEF PageOf
  <2>2. Pages' = [k \in Sessions |-> IF k = s THEN [state |-> "open", of |-> u] ELSE PageOf(k)]
    BY <2>1 DEF Pages
  <2> QED
    BY <1>3, <2>2 DEF Pages, Book!Opened
<1>8. since' = since
  BY <1>1, <1>2 DEF TypeOK
<1>9. Requests' = [Requests EXCEPT ![t] = Book!Away]
  <2>1. Requests' = [Requests EXCEPT ![t] = Asks(NoEvent, since'[t])]
    BY <1>1, <1>8, NoEventTyped, Turned
  <2> QED
    BY <2>1, NoEventAsks
<1>10. Requests[t].at = "verified" /\ Requests[t].who = u
  BY <1>1, <1>3, RequestOf, PhaseIs DEF At
<1>11. Book!Enter(t, s)
  BY <1>1, <1>6, <1>7, <1>9, <1>10 DEF Book!Enter, Book!Becomes
<1> QED
  BY <1>3, <1>11 DEF Book!BookNext

(* Somebody signs in elsewhere: the page of the key presented is closed,   *)
(* and another opened.                                                     *)
LEMMA SignsIn ==
  ASSUME IInv, NEW k \in Key, NEW u \in Users, HttpLogin(k, u)
  PROVE  Book!BookNext
<1>0. PICK s \in Sessions \ used :
        /\ used' = used \cup {s}
        /\ store' = [x \in Sessions |-> IF x = s THEN u ELSE IF x = k THEN Gone ELSE store[x]]
        /\ Bound(s, u)
  BY Zenon DEF HttpLogin
<1> USE ConstantsAssumption
<1>1. /\ TypeOK /\ k \in InCookies /\ u \in accounts /\ SignedIn(k) # {u}
      /\ accounts' = accounts /\ ev' = ev
  BY DEF IInv, HttpLogin
<1>2. owner' = [owner EXCEPT ![s] = u]
  BY <1>0 DEF Bound
<1>3. since' = since
  <2>1. \A x \in Tabs : ev[x].sk # s
    BY <1>0 DEF IInv, EventsOwned
  <2> QED
    BY <1>0, <1>1, <2>1 DEF Bound, TypeOK
<1>4. Drawn' = Drawn
  BY <1>1 DEF Drawn, At
<1>5. s \notin Drawn /\ s # k
  <2>1. s \notin Drawn
    BY <1>0 DEF IInv, CycledPrivate, Drawn
  <2> QED
    BY <1>0, <1>1, <2>1 DEF InCookies
<1>6. Requests' = Requests
  BY <1>1, <1>3 DEF Requests
<1>7. Pages[s].state = "blank"
  BY <1>0 DEF Pages, PageOf
<1>8. Pages' = Book!Opened(Book!Closed(Pages, k), s, u)
  <2>1. PageOf(s)' = [state |-> "open", of |-> u]
    BY <1>0, <1>1, <1>2, <1>4, <1>5 DEF PageOf, TypeOK
  <2>2. ASSUME k \in Sessions PROVE PageOf(k)' = [Pages[k] EXCEPT !.state = "closed"]
    <3>1. k \in used /\ k \notin Drawn
      BY <1>1, <2>2 DEF InCookies
    <3>2. PageOf(k)' = [state |-> "closed", of |-> owner[k]]
      BY <1>0, <1>1, <1>2, <1>4, <1>5, <2>2, <3>1 DEF PageOf, TypeOK
    <3> QED
      BY <2>2, <3>2 DEF Pages, PageOf
  <2>3. \A x \in Sessions : x # s /\ x # k => PageOf(x)' = Pages[x]
    BY <1>0, <1>1, <1>2, <1>4 DEF Pages, PageOf, TypeOK
  <2>4. Pages' = [x \in Sessions |-> IF x = s THEN [state |-> "open", of |-> u]
                  ELSE IF x = k THEN [Pages[x] EXCEPT !.state = "closed"] ELSE Pages[x]]
    BY <2>1, <2>2, <2>3 DEF Pages
  <2> QED
    BY <1>0, <2>4 DEF Book!Opened, Book!Closed
<1>9. Book!InCookie(k) /\ Book!Holder(k) # {u}
  BY <1>1, CookiePages
<1>10. Book!SignIn(k, u, s)
  BY <1>1, <1>6, <1>7, <1>8, <1>9 DEF Book!SignIn
<1> QED
  BY <1>10 DEF Book!BookNext, Key

LEMMA SignsOut ==
  ASSUME IInv, NEW k \in Sessions, HttpLogout(k)
  PROVE  Book!BookNext
<1> USE ConstantsAssumption
<1>1. /\ TypeOK /\ k \in InCookies /\ store[k] # Gone /\ RowDeleted(k) /\ k \in Key /\ k # NoKey
      /\ UNCHANGED <<accounts, used, ev, owner, since>>
  BY Sorts DEF IInv, HttpLogout, history
<1>2. k \in used /\ k \notin Drawn
  BY <1>1 DEF InCookies
<1>3. Drawn' = Drawn
  BY <1>1 DEF Drawn, At
<1>4. Pages' = Book!Closed(Pages, k)
  BY <1>1, <1>2, <1>3, PagesClosed
<1>5. Requests' = Requests
  BY <1>1 DEF Requests
<1>6. Pages[k].state = "open"
  BY <1>1, <1>2 DEF Pages, PageOf
<1>7. Book!SignOut(k)
  BY <1>1, <1>4, <1>5, <1>6 DEF Book!SignOut
<1> QED
  BY <1>7 DEF Book!BookNext

LEMMA Forgets ==
  ASSUME NEW u \in Users, DeleteUser(u)
  PROVE  Book!BookNext
<1>1. u \in accounts /\ accounts' = accounts \ {u} /\ UNCHANGED <<store, used, ev, owner, since>>
  BY DEF DeleteUser, history
<1>2. Pages' = Pages /\ Requests' = Requests
  BY <1>1 DEF Pages, PageOf, Drawn, At, Requests
<1>3. Book!Forget(u)
  BY <1>1, <1>2 DEF Book!Forget
<1> QED
  BY <1>3 DEF Book!BookNext

LEMMA Stands ==
  ASSUME UNCHANGED <<accounts, store, used, ev, owner, since>>
  PROVE  UNCHANGED Book!bookVars
<1>1. Pages' = Pages /\ Requests' = Requests
  BY DEF Pages, PageOf, Drawn, At, Requests
<1> QED
  BY <1>1, BookStands

LEMMA NextBooked == IInv /\ AsBooked /\ [Next]_vars => [Book!BookNext]_(Book!bookVars)
<1> SUFFICES ASSUME IInv, AsBooked, [Next]_vars
             PROVE  Book!BookNext \/ UNCHANGED Book!bookVars
  OBVIOUS
<1>1. CASE UNCHANGED vars
  BY <1>1, Stands DEF vars, history
<1>2. ASSUME NEW t \in Tabs, ServerStep(t) PROVE Book!BookNext \/ UNCHANGED Book!bookVars
  BY <1>2, UnseenSteps, EndingSteps, AnsweringSteps, LeavingSteps, Verifies, Enters DEF ServerStep
<1>3. ASSUME NEW t \in Tabs, ClientStep(t) PROVE Book!BookNext
  BY <1>3, Begins DEF ClientStep
<1>4. ASSUME Tick PROVE UNCHANGED Book!bookVars
  BY <1>4, Stands DEF Tick, history
<1>5. ASSUME Environment PROVE Book!BookNext \/ UNCHANGED Book!bookVars
  BY <1>4, <1>5, SignsIn, SignsOut, Forgets DEF Environment
<1> QED
  BY <1>1, <1>2, <1>3, <1>5 DEF Next

LEMMA InitBooked == Init => Book!BookInit
<1> SUFFICES ASSUME Init PROVE Book!BookInit
  OBVIOUS
<1> USE ConstantsAssumption
<1>1. PICK k \in Key, u \in Identity :
        /\ store = [s \in Sessions |-> IF s = k THEN u ELSE Gone]
        /\ owner = [s \in Sessions |-> IF s = k THEN u ELSE Anon]
        /\ used = {k} \cap Sessions
  BY DEF Init
<1>2. u # Gone
  BY DEF Identity
<1>3. Drawn = {}
  BY DEF Init, Drawn, At, NoEvent
<1>4. \A s \in Sessions : PageOf(s) = [state |-> IF s = k THEN "open" ELSE "blank",
                                       of |-> IF s = k THEN u ELSE Anon]
  BY <1>1, <1>2, <1>3 DEF PageOf
<1>5. Pages = [s \in Sessions |-> [state |-> IF s = k THEN "open" ELSE "blank",
                                   of |-> IF s = k THEN u ELSE Anon]]
  BY <1>4 DEF Pages
<1>6. Requests = [t \in Tabs |-> Book!Away]
  BY NoEventAsks DEF Init, Requests
<1> QED
  BY ZenonT(40), <1>5, <1>6 DEF Init, Book!BookInit, Key, Identity

(* The bridge keeps the book of sessions: whatever order rows, cache       *)
(* entries and accounts are read and written in, by however many tabs and  *)
(* views, each step looks like one step of SessionBook, or like none.      *)
THEOREM SessionsAreBooked == Spec => KeepsBook
<1>1. Init => Book!BookInit
  BY InitBooked
<1>2. IInv /\ AsBooked /\ [Next]_vars => [Book!BookNext]_(Book!bookVars)
  BY NextBooked
<1> QED
  BY <1>1, <1>2, BookedInductive, PTL DEF Spec, KeepsBook, Book!BookSpec
=============================================================================
