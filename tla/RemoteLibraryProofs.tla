------------------------ MODULE RemoteLibraryProofs ------------------------
(***************************************************************************)
(* The invariants of RemoteLibrary, for any number of sessions and         *)
(* definitions. IInv is inductive: beside the properties, it says what the *)
(* fields of the library object have to do with the history of the scope.  *)
(***************************************************************************)
EXTENDS RemoteLibrary, TLAPS

\* While a connection is looked for, there is neither a session nor a verdict.
ConnectInv ==
    /\ pc \in {"connect", "sleep"} => session = NoSession /\ ~incompatible
    /\ window # "none" => pc \in {"connect", "sleep"}
    /\ waited => outage.spent /\ session = NoSession
    /\ OneWindowPerOutage

\* What is left of a scope that has no session anymore.
ScopeInv ==
    /\ incompatible => session = NoSession
    /\ session # NoSession => opened
    /\ session = NoSession /\ ~incompatible =>
          /\ outage.loss <=> replaced
          /\ opened => retry /\ replaced
    /\ op = "import" => ~opened /\ ~replaced /\ session = NoSession

\* A keyword is sent after the session was found, and never before.
SentInv == sent <= 1 /\ (pc \notin {"await", "idle", "gone"} => sent = 0)

IInv == TypeOK /\ ConnectInv /\ ScopeInv /\ SentInv /\ LossIsAnnounced /\ NothingLeftBehind

-----------------------------------------------------------------------------

\* Every step keeps the types.
LEMMA TypeStep ==
    ASSUME TypeOK, [Next]_vars
    PROVE  TypeOK'
<1>. USE NoSessionIsNone, NothingIsNone
      DEF TypeOK, Outages, NoOutage, vars, objectVars, callVars, sessionVars,
          historyVars
<1>1. CASE Refuse
      BY <1>1 DEF Refuse, Fail, Lost
<1>2. CASE Reuse
      BY <1>2 DEF Reuse, Proceed, Lost
<1>3. CASE ConnectAnew
      BY <1>3 DEF ConnectAnew, Connect
<1>4. CASE Replace
      BY <1>4 DEF Replace, Connect, Lost
<1>5. CASE AttemptFails
  <2>1. outage' \in Outages
      BY <1>5 DEF AttemptFails, Outages
  <2>2. pc' \in {"sleep", "gone", "idle"} /\ op' \in {op, "none"}
        /\ window' \in {window, "none"} /\ mine' \in {mine, NoSession} /\ sent' = sent
      BY <1>5 DEF AttemptFails, Fail
  <2>3. waited' \in BOOLEAN
      BY <1>5 DEF AttemptFails
  <2>. QED
      BY <1>5, <2>1, <2>2, <2>3 DEF AttemptFails
<1>6. CASE TryAgain
      BY <1>6 DEF TryAgain
<1>7. CASE Submit
      BY <1>7 DEF Submit
<1>8. CASE KeywordEnds
      BY <1>8 DEF KeywordEnds, Fail
<1>9. CASE KeywordIsLost
      BY <1>9 DEF KeywordIsLost, Fail
<1>10. CASE EndScope
      BY <1>10 DEF EndScope, StopSession
<1>11. CASE Delete
      BY <1>11 DEF Delete, StopSession
<1>12. CASE WindowPasses
      BY <1>12 DEF WindowPasses
<1>13. CASE ServerChanges
      BY <1>13 DEF ServerChanges
<1>14. ASSUME NEW what \in {"look", "keyword"}, Begin(what)
      PROVE  TypeOK'
      BY <1>14 DEF Begin
<1>15. ASSUME NEW s \in Sessions, ConnectionIsAccepted(s)
      PROVE  TypeOK'
      BY <1>15 DEF ConnectionIsAccepted, Connected, Changed, Proceed
<1>16. ASSUME NEW s \in Sessions, ConnectionIsRejected(s)
      PROVE  TypeOK'
      BY <1>16 DEF ConnectionIsRejected, Connected, Changed, Fail
<1>17. ASSUME NEW s \in Sessions, LoseConnection(s)
      PROVE  TypeOK'
      BY <1>17 DEF LoseConnection
<1>18. CASE UNCHANGED vars
      BY <1>18
<1>. QED
      BY <1>1, <1>2, <1>3, <1>4, <1>5, <1>6, <1>7, <1>8, <1>9, <1>10, <1>11,
         <1>12, <1>13, <1>14, <1>15, <1>16, <1>17, <1>18 DEF Next, Ensure,
         Attempt, RunKeyword

\* A window is opened only where no other has passed before.
LEMMA ConnectStep ==
    ASSUME IInv, [Next]_vars
    PROVE  ConnectInv'
<1>. USE NoSessionIsNone, NothingIsNone
      DEF IInv, TypeOK, Outages, NoOutage, ConnectInv, OneWindowPerOutage,
          ScopeInv, vars, objectVars, callVars, sessionVars, historyVars
<1>1. CASE Refuse
      BY <1>1 DEF Refuse, Fail, Lost
<1>2. CASE Reuse
      BY <1>2 DEF Reuse, Proceed, Lost
<1>3. CASE ConnectAnew
      BY <1>3 DEF ConnectAnew, Connect
<1>4. CASE Replace
      BY <1>4 DEF Replace, Connect, Lost
<1>5. CASE AttemptFails
      BY <1>5 DEF AttemptFails, Fail
<1>6. CASE TryAgain
      BY <1>6 DEF TryAgain
<1>7. CASE Submit
      BY <1>7 DEF Submit
<1>8. CASE KeywordEnds
      BY <1>8 DEF KeywordEnds, Fail
<1>9. CASE KeywordIsLost
      BY <1>9 DEF KeywordIsLost, Fail
<1>10. CASE EndScope
      BY <1>10 DEF EndScope, StopSession
<1>11. CASE Delete
      BY <1>11 DEF Delete, StopSession
<1>12. CASE WindowPasses
      BY <1>12 DEF WindowPasses
<1>13. CASE ServerChanges
      BY <1>13 DEF ServerChanges
<1>14. ASSUME NEW what \in {"look", "keyword"}, Begin(what)
      PROVE  ConnectInv'
      BY <1>14 DEF Begin
<1>15. ASSUME NEW s \in Sessions, ConnectionIsAccepted(s)
      PROVE  ConnectInv'
      BY <1>15 DEF ConnectionIsAccepted, Connected, Changed, Proceed
<1>16. ASSUME NEW s \in Sessions, ConnectionIsRejected(s)
      PROVE  ConnectInv'
      BY <1>16 DEF ConnectionIsRejected, Connected, Changed, Fail
<1>17. ASSUME NEW s \in Sessions, LoseConnection(s)
      PROVE  ConnectInv'
      BY <1>17 DEF LoseConnection
<1>18. CASE UNCHANGED vars
      BY <1>18
<1>. QED
      BY <1>1, <1>2, <1>3, <1>4, <1>5, <1>6, <1>7, <1>8, <1>9, <1>10, <1>11,
         <1>12, <1>13, <1>14, <1>15, <1>16, <1>17, <1>18 DEF Next, Ensure,
         Attempt, RunKeyword

\* The outage knows of a loss exactly if a session of the scope was given up.
LEMMA ScopeStep ==
    ASSUME IInv, [Next]_vars
    PROVE  ScopeInv'
<1>. USE NoSessionIsNone, NothingIsNone
      DEF IInv, TypeOK, Outages, NoOutage, ConnectInv, ScopeInv, vars,
          objectVars, callVars, sessionVars, historyVars
<1>1. CASE Refuse
      BY <1>1 DEF Refuse, Fail, Lost
<1>2. CASE Reuse
      BY <1>2 DEF Reuse, Proceed, Lost
<1>3. CASE ConnectAnew
      BY <1>3 DEF ConnectAnew, Connect
<1>4. CASE Replace
      BY <1>4 DEF Replace, Connect, Lost
<1>5. CASE AttemptFails
      BY <1>5 DEF AttemptFails, Fail
<1>6. CASE TryAgain
      BY <1>6 DEF TryAgain
<1>7. CASE Submit
      BY <1>7 DEF Submit
<1>8. CASE KeywordEnds
      BY <1>8 DEF KeywordEnds, Fail
<1>9. CASE KeywordIsLost
      BY <1>9 DEF KeywordIsLost, Fail
<1>10. CASE EndScope
      BY <1>10 DEF EndScope, StopSession
<1>11. CASE Delete
      BY <1>11 DEF Delete, StopSession
<1>12. CASE WindowPasses
      BY <1>12 DEF WindowPasses
<1>13. CASE ServerChanges
      BY <1>13 DEF ServerChanges
<1>14. ASSUME NEW what \in {"look", "keyword"}, Begin(what)
      PROVE  ScopeInv'
      BY <1>14 DEF Begin
<1>15. ASSUME NEW s \in Sessions, ConnectionIsAccepted(s)
      PROVE  ScopeInv'
      BY <1>15 DEF ConnectionIsAccepted, Connected, Changed, Proceed
<1>16. ASSUME NEW s \in Sessions, ConnectionIsRejected(s)
      PROVE  ScopeInv'
      BY <1>16 DEF ConnectionIsRejected, Connected, Changed, Fail
<1>17. ASSUME NEW s \in Sessions, LoseConnection(s)
      PROVE  ScopeInv'
      BY <1>17 DEF LoseConnection
<1>18. CASE UNCHANGED vars
      BY <1>18
<1>. QED
      BY <1>1, <1>2, <1>3, <1>4, <1>5, <1>6, <1>7, <1>8, <1>9, <1>10, <1>11,
         <1>12, <1>13, <1>14, <1>15, <1>16, <1>17, <1>18 DEF Next, Ensure,
         Attempt, RunKeyword

\* A keyword that was sent is not sent again.
LEMMA SentStep ==
    ASSUME IInv, [Next]_vars
    PROVE  SentInv'
<1>. USE NoSessionIsNone, NothingIsNone
      DEF IInv, TypeOK, SentInv, vars, objectVars, callVars, sessionVars,
          historyVars
<1>1. CASE Refuse
      BY <1>1 DEF Refuse, Fail, Lost
<1>2. CASE Reuse
      BY <1>2 DEF Reuse, Proceed, Lost
<1>3. CASE ConnectAnew
      BY <1>3 DEF ConnectAnew, Connect
<1>4. CASE Replace
      BY <1>4 DEF Replace, Connect, Lost
<1>5. CASE AttemptFails
      BY <1>5 DEF AttemptFails, Fail
<1>6. CASE TryAgain
      BY <1>6 DEF TryAgain
<1>7. CASE Submit
      BY <1>7 DEF Submit
<1>8. CASE KeywordEnds
      BY <1>8 DEF KeywordEnds, Fail
<1>9. CASE KeywordIsLost
      BY <1>9 DEF KeywordIsLost, Fail
<1>10. CASE EndScope
      BY <1>10 DEF EndScope, StopSession
<1>11. CASE Delete
      BY <1>11 DEF Delete, StopSession
<1>12. CASE WindowPasses
      BY <1>12 DEF WindowPasses
<1>13. CASE ServerChanges
      BY <1>13 DEF ServerChanges
<1>14. ASSUME NEW what \in {"look", "keyword"}, Begin(what)
      PROVE  SentInv'
      BY <1>14 DEF Begin
<1>15. ASSUME NEW s \in Sessions, ConnectionIsAccepted(s)
      PROVE  SentInv'
      BY <1>15 DEF ConnectionIsAccepted, Connected, Changed, Proceed
<1>16. ASSUME NEW s \in Sessions, ConnectionIsRejected(s)
      PROVE  SentInv'
      BY <1>16 DEF ConnectionIsRejected, Connected, Changed, Fail
<1>17. ASSUME NEW s \in Sessions, LoseConnection(s)
      PROVE  SentInv'
      BY <1>17 DEF LoseConnection
<1>18. CASE UNCHANGED vars
      BY <1>18
<1>. QED
      BY <1>1, <1>2, <1>3, <1>4, <1>5, <1>6, <1>7, <1>8, <1>9, <1>10, <1>11,
         <1>12, <1>13, <1>14, <1>15, <1>16, <1>17, <1>18 DEF Next, Ensure,
         Attempt, RunKeyword

\* A session that replaces a lost one is announced and compared.
LEMMA LossStep ==
    ASSUME IInv, [Next]_vars
    PROVE  LossIsAnnounced'
<1>. USE NoSessionIsNone, NothingIsNone
      DEF IInv, TypeOK, Outages, NoOutage, ConnectInv, ScopeInv,
          LossIsAnnounced, vars, objectVars, callVars, sessionVars, historyVars
<1>1. CASE Refuse
      BY <1>1 DEF Refuse, Fail, Lost
<1>2. CASE Reuse
      BY <1>2 DEF Reuse, Proceed, Lost
<1>3. CASE ConnectAnew
      BY <1>3 DEF ConnectAnew, Connect
<1>4. CASE Replace
      BY <1>4 DEF Replace, Connect, Lost
<1>5. CASE AttemptFails
      BY <1>5 DEF AttemptFails, Fail
<1>6. CASE TryAgain
      BY <1>6 DEF TryAgain
<1>7. CASE Submit
      BY <1>7 DEF Submit
<1>8. CASE KeywordEnds
      BY <1>8 DEF KeywordEnds, Fail
<1>9. CASE KeywordIsLost
      BY <1>9 DEF KeywordIsLost, Fail
<1>10. CASE EndScope
      BY <1>10 DEF EndScope, StopSession
<1>11. CASE Delete
      BY <1>11 DEF Delete, StopSession
<1>12. CASE WindowPasses
      BY <1>12 DEF WindowPasses
<1>13. CASE ServerChanges
      BY <1>13 DEF ServerChanges
<1>14. ASSUME NEW what \in {"look", "keyword"}, Begin(what)
      PROVE  LossIsAnnounced'
      BY <1>14 DEF Begin
<1>15. ASSUME NEW s \in Sessions, ConnectionIsAccepted(s)
      PROVE  LossIsAnnounced'
      BY <1>15 DEF ConnectionIsAccepted, Connected, Changed, Proceed
<1>16. ASSUME NEW s \in Sessions, ConnectionIsRejected(s)
      PROVE  LossIsAnnounced'
      BY <1>16 DEF ConnectionIsRejected, Connected, Changed, Fail
<1>17. ASSUME NEW s \in Sessions, LoseConnection(s)
      PROVE  LossIsAnnounced'
      BY <1>17 DEF LoseConnection
<1>18. CASE UNCHANGED vars
      BY <1>18
<1>. QED
      BY <1>1, <1>2, <1>3, <1>4, <1>5, <1>6, <1>7, <1>8, <1>9, <1>10, <1>11,
         <1>12, <1>13, <1>14, <1>15, <1>16, <1>17, <1>18 DEF Next, Ensure,
         Attempt, RunKeyword

\* A session is given up only when it has been stopped.
LEMMA LeftStep ==
    ASSUME IInv, [Next]_vars
    PROVE  NothingLeftBehind'
<1>. USE NoSessionIsNone, NothingIsNone
      DEF IInv, TypeOK, ConnectInv, ScopeInv, NothingLeftBehind, vars,
          objectVars, callVars, sessionVars, historyVars
<1>1. CASE Refuse
      BY <1>1 DEF Refuse, Fail, Lost
<1>2. CASE Reuse
      BY <1>2 DEF Reuse, Proceed, Lost
<1>3. CASE ConnectAnew
      BY <1>3 DEF ConnectAnew, Connect
<1>4. CASE Replace
      BY <1>4 DEF Replace, Connect, Lost
<1>5. CASE AttemptFails
      BY <1>5 DEF AttemptFails, Fail
<1>6. CASE TryAgain
      BY <1>6 DEF TryAgain
<1>7. CASE Submit
      BY <1>7 DEF Submit
<1>8. CASE KeywordEnds
      BY <1>8 DEF KeywordEnds, Fail
<1>9. CASE KeywordIsLost
      BY <1>9 DEF KeywordIsLost, Fail
<1>10. CASE EndScope
      BY <1>10 DEF EndScope, StopSession
<1>11. CASE Delete
      BY <1>11 DEF Delete, StopSession
<1>12. CASE WindowPasses
      BY <1>12 DEF WindowPasses
<1>13. CASE ServerChanges
      BY <1>13 DEF ServerChanges
<1>14. ASSUME NEW what \in {"look", "keyword"}, Begin(what)
      PROVE  NothingLeftBehind'
      BY <1>14 DEF Begin
<1>15. ASSUME NEW s \in Sessions, ConnectionIsAccepted(s)
      PROVE  NothingLeftBehind'
      BY <1>15 DEF ConnectionIsAccepted, Connected, Changed, Proceed
<1>16. ASSUME NEW s \in Sessions, ConnectionIsRejected(s)
      PROVE  NothingLeftBehind'
      BY <1>16 DEF ConnectionIsRejected, Connected, Changed, Fail
<1>17. ASSUME NEW s \in Sessions, LoseConnection(s)
      PROVE  NothingLeftBehind'
      BY <1>17 DEF LoseConnection
<1>18. CASE UNCHANGED vars
      BY <1>18
<1>. QED
      BY <1>1, <1>2, <1>3, <1>4, <1>5, <1>6, <1>7, <1>8, <1>9, <1>10, <1>11,
         <1>12, <1>13, <1>14, <1>15, <1>16, <1>17, <1>18 DEF Next, Ensure,
         Attempt, RunKeyword

-----------------------------------------------------------------------------

\* IInv holds at the beginning, and every step keeps it.
THEOREM Invariance == Spec => []IInv
<1>1. Init => IInv
      <2>. SUFFICES ASSUME Init PROVE IInv
           OBVIOUS
      <2>. USE NoSessionIsNone, NothingIsNone DEF Init, NoOutage
      <2>1. TypeOK
            BY DEF TypeOK, Outages
      <2>2. ConnectInv /\ ScopeInv /\ SentInv
            BY DEF ConnectInv, OneWindowPerOutage, ScopeInv, SentInv
      <2>3. LossIsAnnounced /\ NothingLeftBehind
            BY DEF LossIsAnnounced, NothingLeftBehind
      <2>. QED
            BY <2>1, <2>2, <2>3 DEF IInv
<1>2. IInv /\ [Next]_vars => IInv'
      <2>. SUFFICES ASSUME IInv, [Next]_vars PROVE IInv'
           OBVIOUS
      <2>1. TypeOK'
            BY TypeStep DEF IInv
      <2>. QED
            BY <2>1, ConnectStep, ScopeStep, SentStep, LossStep, LeftStep DEF IInv
<1>. QED
      BY <1>1, <1>2, PTL DEF Spec

\* The fields of the library object, and its sessions, keep their types.
THEOREM TypeCorrect == Spec => []TypeOK
<1>1. IInv => TypeOK
      BY DEF IInv
<1>. QED
      BY <1>1, Invariance, PTL

\* A session that replaces a lost one of its scope was announced by a warning and
\* has the definition that Robot Framework knows.
THEOREM LossAlwaysAnnounced == Spec => []LossIsAnnounced
<1>1. IInv => LossIsAnnounced
      BY DEF IInv
<1>. QED
      BY <1>1, Invariance, PTL

\* No session is left running, or unstopped, but the one in use.
THEOREM NothingIsLeftBehind == Spec => []NothingLeftBehind
<1>1. IInv => NothingLeftBehind
      BY DEF IInv
<1>. QED
      BY <1>1, Invariance, PTL

\* An outage has one retry window, over any number of calls and scopes.
THEOREM OnlyOneWindow == Spec => []OneWindowPerOutage
<1>1. IInv => OneWindowPerOutage
      BY DEF IInv, ConnectInv
<1>. QED
      BY <1>1, Invariance, PTL

\* Without connect retry, a scope connects once; after an incompatible reconnect
\* it does not connect at all.
THEOREM ConnectionsAreAsked == Spec => []NoUnaskedConnection
<1>1. IInv => NoUnaskedConnection
      BY DEF IInv, ConnectInv, ScopeInv, NoUnaskedConnection
<1>. QED
      BY <1>1, Invariance, PTL

\* No keyword is sent twice.
THEOREM KeywordsAreSentOnce == Spec => []SentOnce
<1>1. IInv => SentOnce
      BY DEF IInv, SentInv, SentOnce
<1>. QED
      BY <1>1, Invariance, PTL

=============================================================================
