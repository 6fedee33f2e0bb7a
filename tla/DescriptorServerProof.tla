------------------------ MODULE DescriptorServerProof ------------------------
(*****************************************************************************)
(* Proofs about DescriptorServer, for any number of children, connections    *)
(* and any length of the error messages.                                     *)
(*****************************************************************************)
EXTENDS DescriptorServerProps, FiniteSetTheorems, TLAPS

(* The children are finitely many, and so is every set of them. *)
LEMMA ChildSets ==
  ASSUME NEW S, S \subseteq Children
  PROVE  /\ IsFiniteSet(S)
         /\ Cardinality(S) \in 0 .. NChildren
<1>1. IsFiniteSet(Children) /\ Cardinality(Children) = NChildren
  BY FS_Interval, ServerAssumption DEF Children
<1>2. IsFiniteSet(S) /\ Cardinality(S) <= NChildren
  BY <1>1, FS_Subset
<1> QED
  BY <1>2, FS_CardinalityType, ServerAssumption

(* How the size of a set of children changes. *)
LEMMA ChildCount ==
  ASSUME NEW S, S \subseteq Children, NEW c \in Children
  PROVE  /\ c \notin S => Cardinality(S \cup {c}) = Cardinality(S) + 1
         /\ c \in S => Cardinality(S \ {c}) = Cardinality(S) - 1
         /\ Cardinality(S) = 0 <=> S = {}
BY ChildSets, FS_AddElement, FS_RemoveElement, FS_EmptySet

(* The elements of a sequence of connections are connections. *)
LEMMA MembersType ==
  ASSUME NEW s \in Seq(Conns) PROVE Members(s) \subseteq Conns
BY DEF Members

(* What an ending process leaves behind has its type. *)
LEMMA ParentEndTypes ==
  ASSUME TypeOK, NEW how \in Gone, NEW S \in SUBSET Conns, ParentEnds(how, S)
  PROVE  /\ pc' \in Gone
         /\ connfd' = None
         /\ backlog' = <<>> /\ backlog' \in Seq(Conns)
         /\ lost' \subseteq Conns
BY MembersType DEF ParentEnds, TypeOK

LEMMA ChildEndTypes ==
  ASSUME TypeOK, NEW c \in Children, ChildEnds(c)
  PROVE  /\ cpc' = [cpc EXCEPT ![c] = "exited"]
         /\ cconn' = [cconn EXCEPT ![c] = None]
         /\ lost' \subseteq Conns
         /\ down' = [down EXCEPT ![c] = <<>>]
         /\ down' \in [Children -> Seq(Conns)]
BY MembersType DEF ChildEnds, TypeOK

-------------------------------------------------------------------------------
(* Types and phases.                                                         *)

(* What select reports: at most every child and the listening socket. *)
LEMMA SelectCount ==
  /\ Cardinality(SelectSet) \in 0 .. NChildren + 1
  /\ Listen \in SelectSet =>
       Cardinality(SelectSet) = Cardinality(SelectSet \ {Listen}) + 1
<1>1. SelectSet \ {Listen} \subseteq Children
  BY DEF SelectSet
<1>2. /\ IsFiniteSet(SelectSet \ {Listen})
      /\ Cardinality(SelectSet \ {Listen}) \in 0 .. NChildren
  BY <1>1, ChildSets
<1>3. CASE Listen \in SelectSet
  <2>1. SelectSet = (SelectSet \ {Listen}) \cup {Listen}
    BY <1>3
  <2>2. Cardinality((SelectSet \ {Listen}) \cup {Listen})
          = Cardinality(SelectSet \ {Listen}) + 1
    BY <1>2, FS_AddElement
  <2> QED
    BY <1>2, <2>1, <2>2, ServerAssumption
<1>4. CASE Listen \notin SelectSet
  <2>1. SelectSet \ {Listen} = SelectSet
    BY <1>4
  <2> QED
    BY <1>2, <1>4, <2>1, ServerAssumption
<1> QED
  BY <1>3, <1>4

(* Every step keeps the types. *)
LEMMA TypeStep == IndInv /\ [Next]_vars => TypeOK'
<1> SUFFICES ASSUME IndInv, [Next]_vars PROVE TypeOK'
  OBVIOUS
<1> USE DEF IndInv
<1>1. CASE Connect
  <2>1. arrived' \in Conns /\ arrived' \in 0 .. MaxConns
    BY <1>1, ServerAssumption DEF Connect, TypeOK, Conns
  <2>2. backlog' \in Seq(Conns)
    BY <1>1, <2>1 DEF Connect, TypeOK
  <2> QED
    BY <1>1, <2>1, <2>2 DEF Connect, TypeOK, tableVars, parentVars,
      childVars, pipeVars, connVars
<1>2. ASSUME NEW k \in 1 .. MaxConns, Abort(k) PROVE TypeOK'
  <2>1. backlog[k] \in Conns
    BY <1>2 DEF Abort, TypeOK
  <2>2. /\ SubSeq(backlog, 1, k - 1) \in Seq(Conns)
        /\ SubSeq(backlog, k + 1, Len(backlog)) \in Seq(Conns)
    BY <1>2 DEF Abort, TypeOK
  <2>3. backlog' \in Seq(Conns)
    BY <1>2, <2>2 DEF Abort
  <2> QED
    BY <1>2, <2>1, <2>3
      DEF Abort, TypeOK, tableVars, parentVars, childVars, pipeVars, connVars
<1>3. CASE MakeChild
  <2>1. i' \in 0 .. NChildren /\ pc' \in {"make", "select"}
    BY <1>3, ServerAssumption DEF MakeChild, TypeOK
  <2>2. /\ status' \in [Children -> {0, 1}]
        /\ cpc' \in [Children -> {"none", "read", "serve", "notify", "dying", "exited"}]
    BY <1>3 DEF MakeChild, TypeOK
  <2> QED
    BY <1>3, <2>1, <2>2 DEF MakeChild, TypeOK, tableVars, parentVars,
      childVars, pipeVars, connVars
<1>4. CASE CallFails
  <2>1. /\ pc' \in Gone
        /\ connfd' = None
        /\ backlog' \in Seq(Conns)
        /\ lost' \subseteq Conns
    BY <1>4, ParentEndTypes DEF CallFails, Gone
  <2> QED
    BY <1>4, <2>1 DEF CallFails, TypeOK, tableVars, parentVars, childVars,
      pipeVars, connVars
<1>5. CASE Select
  <2>1. SelectSet \ {Listen} \subseteq Children
    BY DEF SelectSet
  <2>2. Cardinality(SelectSet) \in 0 .. NChildren + 1
    BY SelectCount
  <2> QED
    BY <1>5, <2>1, <2>2
      DEF Select, TypeOK, tableVars, parentVars, childVars, pipeVars, connVars
<1>6. CASE Accept
  <2>1. CASE Free = {}
    <3>1. /\ pc' \in Gone
          /\ connfd' = None
          /\ backlog' \in Seq(Conns)
          /\ lost' \subseteq Conns
      BY <1>6, <2>1, ParentEndTypes DEF Accept, Gone
    <3> QED
      BY <1>6, <2>1, <3>1 DEF Accept, TypeOK, tableVars, parentVars,
        childVars, pipeVars, connVars
  <2>2. CASE Free # {}
    <3>1. PICK c \in Children :
            /\ i' = c
            /\ status' = [status EXCEPT ![c] = 1]
            /\ count' = [count EXCEPT ![c] = @ + 1]
      BY <1>6, <2>2 DEF Accept
    <3>2. i' \in 0 .. NChildren
      BY <3>1, ServerAssumption DEF Children
    <3>3. backlog \in Seq(Conns) /\ backlog # <<>> /\ navail \in Int
      BY <1>6 DEF Accept, TypeOK
    <3>4. Head(backlog) \in Conns /\ Tail(backlog) \in Seq(Conns)
      BY <3>3
    <3>5. status' \in [Children -> {0, 1}] /\ count' \in [Children -> Nat]
      BY <3>1 DEF TypeOK
    <3>6. connfd' \in Conns /\ backlog' \in Seq(Conns) /\ navail' \in Int
      <4>1. /\ connfd' = Head(backlog)
            /\ backlog' = Tail(backlog)
            /\ navail' = navail - 1
        BY <1>6, <2>2 DEF Accept
      <4> QED
        BY <3>3, <3>4, <4>1
    <3>7. pc' = "pass"
      BY <1>6, <2>2 DEF Accept
    <3> QED
      BY <1>6, <2>2, <3>5, <3>2, <3>6, <3>7 DEF Accept, TypeOK, tableVars,
        parentVars, childVars, pipeVars, connVars
  <2> QED
    BY <2>1, <2>2
<1>7. CASE Pass
  <2>1. i \in Children /\ connfd \in Conns
    BY <1>7 DEF Pass, Phases, TypeOK
  <2>2. CASE Ended(i)
    <3>1. /\ pc' \in Gone
          /\ connfd' = None
          /\ backlog' \in Seq(Conns)
          /\ lost' \subseteq Conns
      BY <1>7, <2>1, <2>2, ParentEndTypes DEF Pass, Gone
    <3> QED
      BY <1>7, <2>2, <3>1
        DEF Pass, TypeOK, tableVars, parentVars, childVars, pipeVars, connVars
  <2>3. CASE ~Ended(i)
    <3>1. Append(down[i], connfd) \in Seq(Conns)
      BY <2>1 DEF TypeOK
    <3>2. down' = [down EXCEPT ![i] = Append(down[i], connfd)]
      BY <1>7, <2>3 DEF Pass
    <3>3. down' \in [Children -> Seq(Conns)]
      BY <2>1, <3>1, <3>2 DEF TypeOK
    <3> QED
      BY <1>7, <2>3, <3>3
        DEF Pass, TypeOK, tableVars, parentVars, childVars, pipeVars, connVars
  <2> QED
    BY <2>2, <2>3
<1>8. CASE CloseConn
  <2>1. nsel \in 1 .. NChildren + 1
    BY <1>8, ChildSets DEF CloseConn, SelectFresh, TypeOK
  <2>2. nsel' \in 0 .. NChildren + 1
    BY <1>8, <2>1, ServerAssumption DEF CloseConn
  <2> QED
    BY <1>8, <2>2 DEF CloseConn, TypeOK, tableVars, parentVars, childVars,
      pipeVars, connVars
<1>9. CASE Scan
  <2>1. PICK c \in Children :
          /\ First(c, rset)
          /\ i' = c
          /\ IF up[c] = 0
             THEN /\ ParentEnds("quit", {})
                  /\ UNCHANGED <<rset, nsel, up, status, navail>>
             ELSE /\ up' = [up EXCEPT ![c] = @ - 1]
                  /\ status' = [status EXCEPT ![c] = 0]
                  /\ navail' = navail + 1
                  /\ nsel' = nsel - 1
                  /\ rset' = rset \ {c}
                  /\ pc' = IF nsel' = 0 THEN "select" ELSE "scan"
                  /\ UNCHANGED <<connfd, backlog, lost>>
    BY <1>9 DEF Scan
  <2>2. i' \in 0 .. NChildren
    BY <2>1, ServerAssumption DEF Children
  <2>3. UNCHANGED <<count, down, arrived, served, cpc, cconn, killed>>
    BY <1>9 DEF Scan, childVars
  <2>4. CASE up[c] = 0
    <3>1. /\ pc' \in Gone
          /\ connfd' = None
          /\ backlog' \in Seq(Conns)
          /\ lost' \subseteq Conns
      BY <2>1, <2>4, ParentEndTypes DEF Gone
    <3> QED
      BY <2>1, <2>2, <2>3, <2>4, <3>1 DEF TypeOK
  <2>5. CASE up[c] # 0
    <3>1. nsel \in 1 .. NChildren + 1
      <4>1. nsel = Cardinality(rset) /\ rset # {}
        BY <1>9 DEF Scan, SelectFresh
      <4> QED
        <5>1. nsel \in 0 .. NChildren + 1 /\ rset \subseteq Children
          BY DEF TypeOK
        <5>2. Cardinality(rset) # 0
          BY <4>1, <5>1, ChildCount
        <5> QED
          BY <4>1, <5>1, <5>2, ServerAssumption
    <3>2. nsel' \in 0 .. NChildren + 1
      BY <2>1, <2>5, <3>1, ServerAssumption
    <3>3. up[c] - 1 \in Nat
      BY <2>1, <2>5 DEF TypeOK
    <3>4. up' \in [Children -> Nat]
      BY <2>1, <2>5, <3>3 DEF TypeOK
    <3>5. status' = [status EXCEPT ![c] = 0] /\ navail' = navail + 1
      BY <2>1, <2>5
    <3>6. status' \in [Children -> {0, 1}] /\ navail' \in Int
      BY <3>5 DEF TypeOK
    <3>7. rset' \subseteq Children
      BY <2>1, <2>5 DEF TypeOK
    <3>8. pc' \in {"select", "scan"} /\ UNCHANGED <<connfd, backlog, lost>>
      BY <2>1, <2>5
    <3> QED
      BY <2>2, <2>3, <3>2, <3>4, <3>6, <3>7, <3>8 DEF TypeOK
  <2> QED
    BY <2>4, <2>5
<1>10. CASE SigInt
  BY <1>10
    DEF SigInt, TypeOK, tableVars, parentVars, childVars, pipeVars, connVars
<1>11. CASE Reap
  <2>1. {connfd} \ ({None} \cup served) \subseteq Conns
    BY DEF TypeOK
  <2>2. /\ pc' \in Gone
        /\ connfd' = None
        /\ backlog' \in Seq(Conns)
        /\ lost' \subseteq Conns
    BY <1>11, <2>1, ParentEndTypes DEF Reap, Gone
  <2> QED
    BY <1>11, <2>2
      DEF Reap, TypeOK, tableVars, parentVars, childVars, pipeVars, connVars
<1>12. ASSUME NEW c \in Children, ChildRead(c) PROVE TypeOK'
  <2>1. CASE down[c] # <<>>
    <3>1. Head(down[c]) \in Conns /\ Tail(down[c]) \in Seq(Conns)
      BY <2>1 DEF TypeOK
    <3>2. /\ cconn' = [cconn EXCEPT ![c] = Head(down[c])]
          /\ down' = [down EXCEPT ![c] = Tail(down[c])]
          /\ cpc' = [cpc EXCEPT ![c] = "serve"]
          /\ UNCHANGED lost
      BY <1>12, <2>1 DEF ChildRead
    <3>3. /\ cconn' \in [Children -> Conns \cup {None}]
          /\ down' \in [Children -> Seq(Conns)]
      BY <3>1, <3>2 DEF TypeOK
    <3> QED
      BY <1>12, <3>2, <3>3 DEF ChildRead, TypeOK, tableVars, parentVars,
        childVars, pipeVars, connVars
  <2>2. CASE down[c] = <<>>
    BY <1>12, <2>2, ChildEndTypes DEF ChildRead, TypeOK, tableVars,
      parentVars, childVars, pipeVars, connVars
  <2> QED
    BY <2>1, <2>2
<1>13. ASSUME NEW c \in Children, ServeReturn(c) PROVE TypeOK'
  <2>1. cconn[c] \in Conns
    BY <1>13 DEF ServeReturn, Phases, TypeOK
  <2> QED
    BY <1>13, <2>1 DEF ServeReturn, TypeOK, tableVars, parentVars, childVars,
      pipeVars, connVars
<1>14. ASSUME NEW c \in Children, ServeFails(c) PROVE TypeOK'
  <2>1. CASE ChildEnds(c) /\ UNCHANGED up
    BY <1>14, <2>1, ChildEndTypes DEF ServeFails, TypeOK, tableVars,
      parentVars, childVars, pipeVars, connVars
  <2>2. CASE ~(ChildEnds(c) /\ UNCHANGED up)
    <3>1. /\ up' = [up EXCEPT ![c] = up[c] + MsgLen]
          /\ cpc' = [cpc EXCEPT ![c] = "dying"]
          /\ UNCHANGED <<cconn, down, lost>>
      BY <1>14, <2>2 DEF ServeFails
    <3>2. up[c] + MsgLen \in Nat
      BY ServerAssumption DEF TypeOK
    <3>3. up' \in [Children -> Nat]
      BY <3>1, <3>2 DEF TypeOK
    <3> QED
      BY <1>14, <3>1, <3>3 DEF ServeFails, TypeOK, tableVars, parentVars,
        childVars, pipeVars, connVars
  <2> QED
    BY <2>1, <2>2
<1>15. ASSUME NEW c \in Children, Notify(c) PROVE TypeOK'
  <2>1. CASE PipeOpen(c)
    <3>1. /\ up' = [up EXCEPT ![c] = up[c] + 1]
          /\ cpc' = [cpc EXCEPT ![c] = "read"]
          /\ UNCHANGED <<cconn, down, lost>>
      BY <1>15, <2>1 DEF Notify
    <3>2. up[c] + 1 \in Nat
      BY DEF TypeOK
    <3>3. up' \in [Children -> Nat]
      BY <3>1, <3>2 DEF TypeOK
    <3> QED
      BY <1>15, <3>1, <3>3 DEF Notify, TypeOK, tableVars, parentVars,
        childVars, pipeVars, connVars
  <2>2. CASE ~PipeOpen(c)
    BY <1>15, <2>2, ChildEndTypes
      DEF Notify, TypeOK, tableVars, parentVars, childVars, pipeVars, connVars
  <2> QED
    BY <2>1, <2>2
<1>16. ASSUME NEW c \in Children, Exit(c) PROVE TypeOK'
  BY <1>16, ChildEndTypes
    DEF Exit, TypeOK, tableVars, parentVars, childVars, pipeVars, connVars
<1>17. CASE UNCHANGED vars
  BY <1>17
    DEF vars, TypeOK, tableVars, parentVars, childVars, pipeVars, connVars
<1>18. Next \/ UNCHANGED vars
  OBVIOUS
<1> QED
  BY ONLY Zenon, <1>1, <1>2, <1>3, <1>4, <1>5, <1>6, <1>7, <1>8, <1>9,
     <1>10, <1>11, <1>12, <1>13, <1>14, <1>15, <1>16, <1>17, <1>18
  DEF Next, ParentStep, Handover, ChildStep

(* Every step keeps the phases. *)
LEMMA PhaseStep == IndInv /\ [Next]_vars => Phases'
<1> SUFFICES ASSUME IndInv, [Next]_vars PROVE Phases'
  OBVIOUS
<1> USE DEF IndInv
<1>1. CASE Connect
  BY <1>1
    DEF Connect, Phases, tableVars, parentVars, childVars, pipeVars, connVars
<1>2. ASSUME NEW k \in 1 .. MaxConns, Abort(k) PROVE Phases'
  BY <1>2
    DEF Abort, Phases, tableVars, parentVars, childVars, pipeVars, connVars
<1>3. CASE MakeChild
  <2>1. CASE i < NChildren
    <3>1. i \in Children /\ i \in Nat
      BY <2>1, ServerAssumption DEF TypeOK, Children
    <3>2. /\ status' = [status EXCEPT ![i] = 0]
          /\ cpc' = [cpc EXCEPT ![i] = "read"]
          /\ i' = i + 1
          /\ UNCHANGED <<pc, cconn, killed>>
      BY <1>3, <2>1 DEF MakeChild
    <3>3. ASSUME NEW c \in Children
          PROVE  /\ killed' = {} /\ status'[c] = 0
                 /\ c >= i' => cpc'[c] = "none"
                 /\ cpc'[c] = "serve" => cconn'[c] # None
      BY <1>3, <3>1, <3>2 DEF MakeChild, Phases, TypeOK, Children
    <3> QED
      BY <1>3, <3>1, <3>2, <3>3 DEF MakeChild, Phases
  <2>2. CASE ~(i < NChildren)
    BY <1>3, <2>2 DEF MakeChild, Phases
  <2> QED
    BY <2>1, <2>2
<1>4. CASE CallFails
  BY <1>4 DEF CallFails, ParentEnds, Phases, tableVars, parentVars,
    childVars, pipeVars, connVars
<1>5. CASE Select
  BY <1>5
    DEF Select, Phases, tableVars, parentVars, childVars, pipeVars, connVars
<1>6. CASE Accept
  <2>1. CASE Free = {}
    BY <1>6, <2>1 DEF Accept, ParentEnds, Phases, tableVars, parentVars,
      childVars, pipeVars, connVars
  <2>2. CASE Free # {}
    <3>1. backlog \in Seq(Conns) /\ backlog # <<>>
      BY <1>6 DEF Accept, TypeOK
    <3>2. Head(backlog) # None
      BY <3>1, ServerAssumption DEF Conns, None
    <3>3. pc' = "pass" /\ i' \in Children /\ connfd' = Head(backlog)
      BY <1>6, <2>2 DEF Accept
    <3> QED
      BY <1>6, <3>2, <3>3 DEF Accept, Phases, childVars
  <2> QED
    BY <2>1, <2>2
<1>7. CASE Pass
  BY <1>7 DEF Pass, ParentEnds, Phases, tableVars, parentVars, childVars,
    pipeVars, connVars
<1>8. CASE CloseConn
  BY <1>8 DEF CloseConn, Phases, tableVars, parentVars, childVars, pipeVars,
    connVars
<1>9. CASE Scan
  <2>1. pc = "scan" /\ pc' \in {"quit", "select", "scan"}
    BY <1>9 DEF Scan, ParentEnds
  <2> QED
    BY <1>9, <2>1 DEF Scan, Phases, childVars
<1>10. CASE SigInt
  BY <1>10
    DEF SigInt, Phases, tableVars, parentVars, childVars, pipeVars, connVars
<1>11. CASE Reap
  BY <1>11 DEF Reap, ParentEnds, Phases, tableVars, parentVars, childVars,
    pipeVars, connVars
<1>12. ASSUME NEW c \in Children, ChildRead(c) PROVE Phases'
  <2>1. CASE down[c] # <<>>
    <3>1. Head(down[c]) # None
      BY <2>1, ServerAssumption DEF TypeOK, Conns, None
    <3> QED
      <4>1. /\ cpc' = [cpc EXCEPT ![c] = "serve"]
            /\ cconn' = [cconn EXCEPT ![c] = Head(down[c])]
            /\ cpc[c] = "read"
            /\ UNCHANGED <<killed, parentVars, tableVars>>
        BY <1>12, <2>1 DEF ChildRead
      <4>2. \A d \in Children : cpc'[d] = "serve" => cconn'[d] # None
        BY <3>1, <4>1 DEF Phases, TypeOK
      <4> QED
        BY <4>1, <4>2 DEF Phases, TypeOK, tableVars, parentVars, childVars,
          pipeVars, connVars
  <2>2. CASE down[c] = <<>>
    BY <1>12, <2>2 DEF ChildRead, ChildEnds, Phases, TypeOK, tableVars,
      parentVars, childVars, pipeVars, connVars
  <2> QED
    BY <2>1, <2>2
<1>13. ASSUME NEW c \in Children, ServeReturn(c) PROVE Phases'
  BY <1>13 DEF ServeReturn, Phases, TypeOK, tableVars, parentVars, childVars,
    pipeVars, connVars
<1>14. ASSUME NEW c \in Children, ServeFails(c) PROVE Phases'
  BY <1>14 DEF ServeFails, ChildEnds, Phases, TypeOK, tableVars, parentVars,
    childVars, pipeVars, connVars
<1>15. ASSUME NEW c \in Children, Notify(c) PROVE Phases'
  BY <1>15 DEF Notify, ChildEnds, Phases, TypeOK, tableVars, parentVars,
    childVars, pipeVars, connVars
<1>16. ASSUME NEW c \in Children, Exit(c) PROVE Phases'
  BY <1>16 DEF Exit, ChildEnds, Phases, TypeOK, tableVars, parentVars,
    childVars, pipeVars, connVars
<1>17. CASE UNCHANGED vars
  BY <1>17
    DEF vars, Phases, tableVars, parentVars, childVars, pipeVars, connVars
<1>18. Next \/ UNCHANGED vars
  OBVIOUS
<1> QED
  BY ONLY Zenon, <1>1, <1>2, <1>3, <1>4, <1>5, <1>6, <1>7, <1>8, <1>9,
     <1>10, <1>11, <1>12, <1>13, <1>14, <1>15, <1>16, <1>17, <1>18
  DEF Next, ParentStep, Handover, ChildStep

(* Every step keeps the account of select: what has become readable stays    *)
(* so until the parent reads it.                                             *)
LEMMA SelectStep == IndInv /\ [Next]_vars => SelectFresh'
<1> SUFFICES ASSUME IndInv, [Next]_vars PROVE SelectFresh'
  OBVIOUS
<1> USE DEF IndInv
<1>1. CASE Connect
  BY <1>1 DEF Connect, SelectFresh, Readable, Ended, tableVars, parentVars,
    childVars, pipeVars, connVars
<1>2. ASSUME NEW k \in 1 .. MaxConns, Abort(k) PROVE SelectFresh'
  BY <1>2 DEF Abort, SelectFresh, Readable, Ended, tableVars, parentVars,
    childVars, pipeVars, connVars
<1>3. CASE MakeChild
  BY <1>3 DEF MakeChild, SelectFresh
<1>4. CASE CallFails
  BY <1>4 DEF CallFails, ParentEnds, SelectFresh
<1>5. CASE Select
  <2>1. \A c \in rset' : Readable(c)'
    BY <1>5 DEF Select, SelectSet, Listen, Children, Readable, Ended,
      childVars, pipeVars
  <2>2. CASE Listen \in SelectSet
    BY <1>5, <2>1, <2>2, SelectCount DEF Select, SelectFresh
  <2>3. CASE Listen \notin SelectSet
    <3>1. rset' = SelectSet /\ nsel' = Cardinality(SelectSet) /\ pc' = "scan"
      BY <1>5, <2>3 DEF Select
    <3> QED
      BY <1>5, <2>1, <3>1 DEF Select, SelectFresh
  <2> QED
    BY <2>2, <2>3
<1>6. CASE Accept
  <2>1. pc = "accept" /\ pc' \in {"quit", "pass"}
    BY <1>6 DEF Accept, ParentEnds
  <2>2. UNCHANGED <<rset, nsel, up, cpc>>
    BY <1>6 DEF Accept, childVars, pipeVars
  <2> QED
    BY <2>1, <2>2 DEF SelectFresh, Readable, Ended
<1>7. CASE Pass
  <2>1. pc = "pass" /\ pc' \in {"quit", "close"}
    BY <1>7 DEF Pass, ParentEnds
  <2>2. UNCHANGED <<rset, nsel, up, cpc>>
    BY <1>7 DEF Pass, childVars
  <2> QED
    BY <2>1, <2>2 DEF SelectFresh, Readable, Ended
<1>8. CASE CloseConn
  <2>1. rset \subseteq Children /\ Cardinality(rset) \in Nat
    BY ChildSets DEF TypeOK
  <2>2. nsel' = Cardinality(rset)
    BY <1>8, <2>1 DEF CloseConn, SelectFresh
  <2>3. nsel' = 0 <=> rset = {}
    BY <2>1, <2>2, ServerAssumption, ChildCount, FS_EmptySet
  <2>4. \A c \in rset : Readable(c)'
    BY <1>8 DEF CloseConn, SelectFresh, Readable, Ended, childVars, pipeVars
  <2>5. pc' = (IF nsel' = 0 THEN "select" ELSE "scan") /\ rset' = rset
    BY <1>8 DEF CloseConn
  <2> QED
    BY <2>2, <2>3, <2>4, <2>5 DEF SelectFresh
<1>9. CASE Scan
  <2>1. PICK c \in Children :
          /\ First(c, rset)
          /\ IF up[c] = 0
             THEN pc' = "quit"
             ELSE /\ up' = [up EXCEPT ![c] = @ - 1]
                  /\ nsel' = nsel - 1
                  /\ rset' = rset \ {c}
                  /\ pc' = IF nsel' = 0 THEN "select" ELSE "scan"
    BY <1>9 DEF Scan, ParentEnds
  <2>2. CASE up[c] = 0
    BY <2>1, <2>2 DEF SelectFresh
  <2>3. CASE up[c] # 0
    <3>1. c \in rset /\ rset \subseteq Children
      BY <2>1 DEF First, TypeOK
    <3>2. rset' \subseteq Children /\ Cardinality(rset') = Cardinality(rset) - 1
      BY <2>1, <2>3, <3>1, ChildCount
    <3>3. nsel' = Cardinality(rset')
      BY <1>9, <2>1, <2>3, <3>2 DEF Scan, SelectFresh
    <3>4. nsel' = 0 <=> rset' = {}
      BY <2>1, <3>2, <3>3, ChildCount
    <3>5. ASSUME NEW d \in rset' PROVE Readable(d)'
      BY <1>9, <2>1, <2>3, <3>1, <3>5
        DEF Scan, SelectFresh, Readable, Ended, childVars, TypeOK
    <3> QED
      BY <2>1, <2>3, <3>3, <3>4, <3>5 DEF SelectFresh
  <2> QED
    BY <2>2, <2>3
<1>10. CASE SigInt
  BY <1>10 DEF SigInt, SelectFresh
<1>11. CASE Reap
  BY <1>11 DEF Reap, ParentEnds, SelectFresh
<1>12. ASSUME NEW c \in Children, ChildRead(c) PROVE SelectFresh'
  <2>1. UNCHANGED <<pc, rset, nsel>>
    BY <1>12 DEF ChildRead, parentVars
  <2>2. ASSUME NEW d \in Children, Readable(d) PROVE Readable(d)'
    BY <1>12, <2>2, ServerAssumption
      DEF ChildRead, ChildEnds, Readable, Ended, TypeOK, pipeVars
  <2> QED
    BY <2>1, <2>2 DEF SelectFresh, TypeOK
<1>13. ASSUME NEW c \in Children, ServeReturn(c) PROVE SelectFresh'
  <2>1. UNCHANGED <<pc, rset, nsel>>
    BY <1>13 DEF ServeReturn, parentVars
  <2>2. ASSUME NEW d \in Children, Readable(d) PROVE Readable(d)'
    BY <1>13, <2>2, ServerAssumption
      DEF ServeReturn, Readable, Ended, TypeOK, pipeVars
  <2> QED
    BY <2>1, <2>2 DEF SelectFresh, TypeOK
<1>14. ASSUME NEW c \in Children, ServeFails(c) PROVE SelectFresh'
  <2>1. UNCHANGED <<pc, rset, nsel>>
    BY <1>14 DEF ServeFails, parentVars
  <2>2. up' = up \/ up' = [up EXCEPT ![c] = up[c] + MsgLen]
    BY <1>14 DEF ServeFails
  <2>3. cpc[c] # "exited" /\ \E where : cpc' = [cpc EXCEPT ![c] = where]
    BY <1>14 DEF ServeFails, ChildEnds
  <2>4. ASSUME NEW d \in Children, Readable(d) PROVE Readable(d)'
    <3>1. up[d] \in Nat /\ MsgLen \in Nat
      BY ServerAssumption DEF TypeOK
    <3>2. up'[d] = up[d] \/ up'[d] = up[d] + MsgLen
      BY <2>2 DEF TypeOK
    <3>3. cpc[d] = "exited" => cpc'[d] = "exited"
      BY <2>3 DEF TypeOK
    <3> QED
      BY <2>4, <3>1, <3>2, <3>3 DEF Readable, Ended
  <2> QED
    BY <2>1, <2>4 DEF SelectFresh, TypeOK
<1>15. ASSUME NEW c \in Children, Notify(c) PROVE SelectFresh'
  <2>1. UNCHANGED <<pc, rset, nsel>>
    BY <1>15 DEF Notify, parentVars
  <2>2. up' = up \/ up' = [up EXCEPT ![c] = up[c] + 1]
    BY <1>15 DEF Notify
  <2>3. cpc[c] # "exited" /\ \E where : cpc' = [cpc EXCEPT ![c] = where]
    BY <1>15 DEF Notify, ChildEnds
  <2>4. ASSUME NEW d \in Children, Readable(d) PROVE Readable(d)'
    <3>1. up[d] \in Nat /\ MsgLen \in Nat
      BY ServerAssumption DEF TypeOK
    <3>2. up'[d] = up[d] \/ up'[d] = up[d] + 1
      BY <2>2 DEF TypeOK
    <3>3. cpc[d] = "exited" => cpc'[d] = "exited"
      BY <2>3 DEF TypeOK
    <3> QED
      BY <2>4, <3>1, <3>2, <3>3 DEF Readable, Ended
  <2> QED
    BY <2>1, <2>4 DEF SelectFresh, TypeOK
<1>16. ASSUME NEW c \in Children, Exit(c) PROVE SelectFresh'
  <2>1. UNCHANGED <<pc, rset, nsel>>
    BY <1>16 DEF Exit, parentVars
  <2>2. ASSUME NEW d \in Children, Readable(d) PROVE Readable(d)'
    BY <1>16, <2>2, ServerAssumption
      DEF Exit, ChildEnds, Readable, Ended, TypeOK, pipeVars
  <2> QED
    BY <2>1, <2>2 DEF SelectFresh, TypeOK
<1>17. CASE UNCHANGED vars
  BY <1>17 DEF vars, SelectFresh, Readable, Ended, tableVars, parentVars,
    childVars, pipeVars, connVars
<1>18. Next \/ UNCHANGED vars
  OBVIOUS
<1> QED
  BY ONLY Zenon, <1>1, <1>2, <1>3, <1>4, <1>5, <1>6, <1>7, <1>8, <1>9,
     <1>10, <1>11, <1>12, <1>13, <1>14, <1>15, <1>16, <1>17, <1>18
  DEF Next, ParentStep, Handover, ChildStep

(* A server that works did so before the step. *)
LEMMA HealthyBefore == IndInv /\ [Next]_vars /\ Healthy' => Healthy
<1> SUFFICES ASSUME IndInv, [Next]_vars, Healthy' PROVE Healthy
  OBVIOUS
<1> USE DEF IndInv
<1>1. CASE Connect
  BY <1>1 DEF Connect, Healthy, Gone, tableVars, parentVars, childVars,
    pipeVars, connVars
<1>2. ASSUME NEW k \in 1 .. MaxConns, Abort(k) PROVE Healthy
  BY <1>2 DEF Abort, Healthy, Gone, tableVars, parentVars, childVars,
    pipeVars, connVars
<1>3. CASE MakeChild
  <2>1. \A c \in Children : cpc'[c] \notin {"dying", "exited"} => cpc[c] \notin {"dying", "exited"}
    BY <1>3, ServerAssumption DEF MakeChild, TypeOK, Children, Phases
  <2> QED
    BY <1>3, <2>1 DEF MakeChild, Healthy, Gone
<1>4. CASE CallFails
  BY <1>4 DEF CallFails, ParentEnds, Healthy, Gone, tableVars, parentVars,
    childVars, pipeVars, connVars
<1>5. CASE Select
  BY <1>5 DEF Select, Healthy, Gone, tableVars, parentVars, childVars,
    pipeVars, connVars
<1>6. CASE Accept
  BY <1>6 DEF Accept, ParentEnds, Healthy, Gone, tableVars, parentVars,
    childVars, pipeVars, connVars
<1>7. CASE Pass
  BY <1>7 DEF Pass, ParentEnds, Healthy, Gone, tableVars, parentVars,
    childVars, pipeVars, connVars
<1>8. CASE CloseConn
  BY <1>8 DEF CloseConn, Healthy, Gone, tableVars, parentVars, childVars,
    pipeVars, connVars
<1>9. CASE Scan
  <2>1. pc = "scan"
    BY <1>9 DEF Scan
  <2> QED
    BY <1>9, <2>1 DEF Scan, Healthy, Gone, childVars
<1>10. CASE SigInt
  BY <1>10 DEF SigInt, Healthy, Gone, tableVars, parentVars, childVars,
    pipeVars, connVars
<1>11. CASE Reap
  BY <1>11 DEF Reap, ParentEnds, Healthy, Gone, tableVars, parentVars,
    childVars, pipeVars, connVars
<1>12. ASSUME NEW c \in Children, ChildRead(c) PROVE Healthy
  <2>1. /\ cpc'[c] \notin {"dying", "exited"}
        /\ \E where : cpc' = [cpc EXCEPT ![c] = where]
    BY <1>12 DEF ChildRead, ChildEnds, Healthy
  <2>2. cpc[c] \notin {"dying", "exited"}
    BY <1>12, <2>1 DEF ChildRead, ChildEnds, TypeOK
  <2> QED
    BY <1>12, <2>1, <2>2 DEF ChildRead, Healthy, TypeOK, Gone, parentVars
<1>13. ASSUME NEW c \in Children, ServeReturn(c) PROVE Healthy
  <2>1. /\ cpc'[c] \notin {"dying", "exited"}
        /\ \E where : cpc' = [cpc EXCEPT ![c] = where]
    BY <1>13 DEF ServeReturn, ChildEnds, Healthy
  <2>2. cpc[c] \notin {"dying", "exited"}
    BY <1>13, <2>1 DEF ServeReturn, ChildEnds, TypeOK
  <2> QED
    BY <1>13, <2>1, <2>2 DEF ServeReturn, Healthy, TypeOK, Gone, parentVars
<1>14. ASSUME NEW c \in Children, ServeFails(c) PROVE Healthy
  <2>1. /\ cpc'[c] \notin {"dying", "exited"}
        /\ \E where : cpc' = [cpc EXCEPT ![c] = where]
    BY <1>14 DEF ServeFails, ChildEnds, Healthy
  <2>2. cpc[c] \notin {"dying", "exited"}
    BY <1>14, <2>1 DEF ServeFails, ChildEnds, TypeOK
  <2> QED
    BY <1>14, <2>1, <2>2 DEF ServeFails, Healthy, TypeOK, Gone, parentVars
<1>15. ASSUME NEW c \in Children, Notify(c) PROVE Healthy
  <2>1. /\ cpc'[c] \notin {"dying", "exited"}
        /\ \E where : cpc' = [cpc EXCEPT ![c] = where]
    BY <1>15 DEF Notify, ChildEnds, Healthy
  <2>2. cpc[c] \notin {"dying", "exited"}
    BY <1>15, <2>1 DEF Notify, ChildEnds, TypeOK
  <2> QED
    BY <1>15, <2>1, <2>2 DEF Notify, Healthy, TypeOK, Gone, parentVars
<1>16. ASSUME NEW c \in Children, Exit(c) PROVE Healthy
  <2>1. /\ cpc'[c] \notin {"dying", "exited"}
        /\ \E where : cpc' = [cpc EXCEPT ![c] = where]
    BY <1>16 DEF Exit, ChildEnds, Healthy
  <2>2. cpc[c] \notin {"dying", "exited"}
    BY <1>16, <2>1 DEF Exit, ChildEnds, TypeOK
  <2> QED
    BY <1>16, <2>1, <2>2 DEF Exit, Healthy, TypeOK, Gone, parentVars
<1>17. CASE UNCHANGED vars
  BY <1>17 DEF vars, Healthy, Gone, tableVars, parentVars, childVars,
    pipeVars, connVars
<1>18. Next \/ UNCHANGED vars
  OBVIOUS
<1> QED
  BY ONLY Zenon, <1>1, <1>2, <1>3, <1>4, <1>5, <1>6, <1>7, <1>8, <1>9,
     <1>10, <1>11, <1>12, <1>13, <1>14, <1>15, <1>16, <1>17, <1>18
  DEF Next, ParentStep, Handover, ChildStep

(* Len and the ends of a sequence of connections. *)
LEMMA SeqLen ==
  ASSUME NEW s \in Seq(Conns)
  PROVE  /\ Len(s) \in Nat
         /\ \A x \in Conns : Len(Append(s, x)) = Len(s) + 1
         /\ s # <<>> => Len(Tail(s)) = Len(s) - 1
OBVIOUS

(* The terms of Tokens. *)
LEMMA TokenTypes ==
  ASSUME TypeOK, NEW c \in Children
  PROVE  /\ Passing(c) \in {0, 1}
         /\ Working(c) \in {0, 1}
         /\ down[c] \in Seq(Conns) /\ Len(down[c]) \in Nat
         /\ up[c] \in Nat
         /\ status[c] \in {0, 1}
BY SeqLen DEF TypeOK, Passing, Working

(* Every step keeps the books: a token moves from the parent to the pipe, to *)
(* the child, and back through the pipe.                                     *)
LEMMA BooksStep == IndInv /\ [Next]_vars => Books'
<1> SUFFICES ASSUME IndInv, [Next]_vars, Healthy' PROVE Books'
  BY DEF Books
<1> Healthy
  BY HealthyBefore
<1> USE DEF IndInv
<1>1. CASE Connect
  BY <1>1 DEF Connect, Books, Tokens, Passing, Working, Free, tableVars,
    parentVars, childVars, pipeVars, connVars
<1>2. ASSUME NEW k \in 1 .. MaxConns, Abort(k) PROVE Books'
  BY <1>2 DEF Abort, Books, Tokens, Passing, Working, Free, tableVars,
    parentVars, childVars, pipeVars, connVars
<1>3. CASE MakeChild
  <2>1. status' = status
    BY <1>3 DEF MakeChild, Phases, TypeOK
  <2>2. ASSUME NEW c \in Children PROVE Tokens(c)' = Tokens(c)
    <3>1. pc = "make" /\ pc' # "pass" /\ UNCHANGED <<down, up>>
      BY <1>3 DEF MakeChild, pipeVars
    <3>2. Passing(c)' = Passing(c)
      BY <3>1 DEF Passing
    <3>3. Working(c)' = Working(c)
      BY <1>3 DEF MakeChild, Working, Phases, TypeOK
    <3> QED
      BY <3>1, <3>2, <3>3 DEF Tokens
  <2> QED
    BY <1>3, <2>1, <2>2 DEF MakeChild, Books, Free
<1>4. CASE CallFails
  BY <1>4 DEF CallFails, ParentEnds, Healthy, Gone
<1>5. CASE Select
  <2>1. UNCHANGED <<status, navail>> /\ Free' = Free
    BY <1>5 DEF Select, Free, tableVars
  <2>2. pc' = "accept" => navail > 0
    BY <1>5 DEF Select, SelectSet, Listen, Children
  <2>3. pc' = "accept" => Free # {}
    BY <2>2, FS_EmptySet DEF Books
  <2>4. ASSUME NEW c \in Children PROVE Tokens(c)' = Tokens(c)
    BY <1>5 DEF Select, Tokens, Passing, Working, childVars, pipeVars
  <2> QED
    BY <2>1, <2>3, <2>4 DEF Books
<1>6. CASE Accept
  <2>1. Free # {} /\ pc = "accept"
    BY <1>6 DEF Accept, Books
  <2>2. PICK c \in Children :
          /\ First(c, Free)
          /\ i' = c
          /\ status' = [status EXCEPT ![c] = 1]
    BY <1>6, <2>1 DEF Accept
  <2>3. navail' = navail - 1 /\ pc' = "pass" /\ UNCHANGED <<cpc, down, up>>
    BY <1>6, <2>1 DEF Accept, childVars, pipeVars
  <2>4. Free' = Free \ {c} /\ c \in Free /\ Free \subseteq Children
    BY <2>2 DEF Free, First, TypeOK
  <2>5. navail' = Cardinality(Free')
    BY <2>3, <2>4, ChildCount DEF Books
  <2>6. ASSUME NEW d \in Children PROVE status'[d] = Tokens(d)'
    <3>1. Len(down[d]) \in Nat /\ up[d] \in Nat
      BY TokenTypes
    <3>2. status[d] = Tokens(d)
      BY DEF Books
    <3>3. Passing(d) = 0 /\ Working(d)' = Working(d) /\ Working(d) \in {0, 1}
      BY <2>1, <2>3 DEF Passing, Working
    <3>4. CASE d = c
      <4>1. status[d] = 0 /\ status'[d] = 1
        BY <2>2, <2>4, <3>4 DEF Free, TypeOK
      <4>2. Passing(d)' = 1
        BY <2>2, <2>3, <3>4 DEF Passing
      <4> QED
        BY SMTT(30), <2>3, <3>1, <3>2, <3>3, <4>1, <4>2 DEF Tokens
    <3>5. CASE d # c
      <4>1. status'[d] = status[d]
        BY <2>2, <3>5 DEF TypeOK
      <4>2. Passing(d)' = 0
        BY <2>2, <3>5 DEF Passing
      <4> QED
        BY <2>3, <3>2, <3>3, <4>1, <4>2 DEF Tokens
    <3> QED
      BY <3>4, <3>5
  <2> QED
    BY <2>3, <2>5, <2>6 DEF Books
<1>7. CASE Pass
  <2>1. ~Ended(i) /\ i \in Children /\ connfd \in Conns
    BY <1>7 DEF Pass, ParentEnds, Healthy, Gone, Phases, TypeOK
  <2>2. /\ pc = "pass" /\ pc' = "close"
        /\ down' = [down EXCEPT ![i] = Append(down[i], connfd)]
        /\ UNCHANGED <<i, up, status, navail, cpc>>
    BY <1>7, <2>1 DEF Pass, tableVars, childVars
  <2>3. ASSUME NEW d \in Children PROVE Tokens(d)' = Tokens(d)
    <3>1. down[d] \in Seq(Conns) /\ Len(down[d]) \in Nat /\ up[d] \in Nat
      BY SeqLen DEF TypeOK
    <3>2. Len(down'[d]) = Len(down[d]) + (IF d = i THEN 1 ELSE 0)
      BY <2>1, <2>2, <3>1, SeqLen DEF TypeOK
    <3>3. /\ Passing(d) = (IF d = i THEN 1 ELSE 0) /\ Passing(d)' = 0
          /\ Working(d)' = Working(d) /\ Working(d) \in {0, 1}
      BY <2>2 DEF Passing, Working
    <3>4. CASE d = i
      BY <2>2, <3>1, <3>2, <3>3, <3>4 DEF Tokens
    <3>5. CASE d # i
      BY <2>2, <3>1, <3>2, <3>3, <3>5 DEF Tokens
    <3> QED
      BY <3>4, <3>5
  <2> QED
    BY <2>2, <2>3 DEF Books, Free
<1>8. CASE CloseConn
  <2>1. pc = "close" /\ pc' \in {"select", "scan"} /\ UNCHANGED <<status, navail, cpc, down, up>>
    BY <1>8 DEF CloseConn, tableVars, childVars, pipeVars
  <2>2. ASSUME NEW c \in Children PROVE Tokens(c)' = Tokens(c)
    BY <2>1 DEF Tokens, Passing, Working
  <2> QED
    BY <2>1, <2>2 DEF Books, Free
<1>9. CASE Scan
  <2>1. PICK c \in Children :
          /\ IF up[c] = 0
             THEN pc' = "quit"
             ELSE /\ up' = [up EXCEPT ![c] = up[c] - 1]
                  /\ status' = [status EXCEPT ![c] = 0]
                  /\ navail' = navail + 1
                  /\ pc' = IF nsel' = 0 THEN "select" ELSE "scan"
    BY <1>9 DEF Scan, ParentEnds
  <2>2. up[c] # 0
    BY <2>1 DEF Healthy, Gone
  <2>3. /\ pc = "scan" /\ pc' \in {"select", "scan"}
        /\ up' = [up EXCEPT ![c] = up[c] - 1]
        /\ status' = [status EXCEPT ![c] = 0]
        /\ navail' = navail + 1
        /\ UNCHANGED <<down, cpc>>
    BY <1>9, <2>1, <2>2 DEF Scan, childVars
  <2>4. status[c] = 1 /\ up[c] = 1
    <3>1. status[c] = Tokens(c)
      BY DEF Books
    <3> QED
      BY <2>2, <3>1, TokenTypes DEF Tokens
  <2>5. Free' = Free \cup {c} /\ c \notin Free /\ Free \subseteq Children
    BY <2>3, <2>4 DEF Free, TypeOK
  <2>6. navail' = Cardinality(Free')
    BY <2>3, <2>5, ChildCount DEF Books
  <2>7. ASSUME NEW d \in Children PROVE status'[d] = Tokens(d)'
    <3>1. status[d] = Tokens(d)
      BY DEF Books
    <3>2. Passing(d) = 0 /\ Passing(d)' = 0 /\ Working(d)' = Working(d)
      BY <2>3 DEF Passing, Working
    <3>3. CASE d = c
      <4>1. status'[d] = 0 /\ up'[d] = 0
        BY <2>3, <2>4, <3>3 DEF TypeOK
      <4> QED
        BY <2>3, <2>4, <3>1, <3>2, <3>3, <4>1, TokenTypes DEF Tokens
    <3>4. CASE d # c
      <4>1. status'[d] = status[d] /\ up'[d] = up[d]
        BY <2>3, <3>4 DEF TypeOK
      <4> QED
        BY <2>3, <3>1, <3>2, <4>1 DEF Tokens
    <3> QED
      BY <3>3, <3>4
  <2> QED
    BY <2>3, <2>6, <2>7 DEF Books
<1>10. CASE SigInt
  BY <1>10 DEF SigInt, Healthy
<1>11. CASE Reap
  BY <1>11 DEF Reap, ParentEnds, Healthy, Gone
<1>12. ASSUME NEW c \in Children, ChildRead(c) PROVE Books'
  <2>1. down[c] # <<>>
    BY <1>12 DEF ChildRead, ChildEnds, Healthy, TypeOK
  <2>2. /\ cpc[c] = "read"
        /\ cpc' = [cpc EXCEPT ![c] = "serve"]
        /\ down' = [down EXCEPT ![c] = Tail(down[c])]
        /\ UNCHANGED <<pc, i, up, status, navail>>
    BY <1>12, <2>1 DEF ChildRead, parentVars, tableVars
  <2>3. ASSUME NEW d \in Children PROVE Tokens(d)' = Tokens(d)
    <3>1. down[d] \in Seq(Conns) /\ Len(down[d]) \in Nat /\ up[d] \in Nat
      BY SeqLen DEF TypeOK
    <3>2. CASE d = c
      <4>1. Len(down'[d]) = Len(down[d]) - 1 /\ cpc'[d] = "serve"
        BY <2>1, <2>2, <3>1, <3>2, SeqLen DEF TypeOK
      <4>2. Passing(d)' = Passing(d) /\ Working(d) = 0 /\ Working(d)' = 1
        BY <2>2, <3>2, <4>1 DEF Passing, Working
      <4> QED
        BY <2>2, <3>1, <4>1, <4>2, TokenTypes DEF Tokens
    <3>3. CASE d # c
      BY <2>2, <3>3 DEF Tokens, Passing, Working, TypeOK
    <3> QED
      BY <3>2, <3>3
  <2> QED
    BY <2>2, <2>3 DEF Books, Free
<1>13. ASSUME NEW c \in Children, ServeReturn(c) PROVE Books'
  <2>1. ASSUME NEW d \in Children PROVE Tokens(d)' = Tokens(d)
    BY <1>13
      DEF ServeReturn, Tokens, Passing, Working, TypeOK, parentVars, pipeVars
  <2> QED
    BY <1>13, <2>1 DEF ServeReturn, Books, Free, parentVars, tableVars
<1>14. ASSUME NEW c \in Children, ServeFails(c) PROVE Books'
  BY <1>14 DEF ServeFails, ChildEnds, Healthy, TypeOK
<1>15. ASSUME NEW c \in Children, Notify(c) PROVE Books'
  <2>1. PipeOpen(c)
    BY <1>15 DEF Notify, ChildEnds, Healthy, TypeOK
  <2>2. /\ cpc[c] = "notify"
        /\ cpc' = [cpc EXCEPT ![c] = "read"]
        /\ up' = [up EXCEPT ![c] = up[c] + 1]
        /\ UNCHANGED <<pc, i, down, status, navail>>
    BY <1>15, <2>1 DEF Notify, parentVars, tableVars
  <2>3. ASSUME NEW d \in Children PROVE Tokens(d)' = Tokens(d)
    <3>1. Len(down[d]) \in Nat /\ up[d] \in Nat
      BY SeqLen DEF TypeOK
    <3>2. CASE d = c
      <4>1. up'[d] = up[d] + 1 /\ cpc'[d] = "read"
        BY <2>2, <3>2 DEF TypeOK
      <4>2. Passing(d)' = Passing(d) /\ Working(d) = 1 /\ Working(d)' = 0
        BY <2>2, <3>2, <4>1 DEF Passing, Working
      <4>3. down' = down /\ Passing(d) \in {0, 1}
        BY <2>2, TokenTypes
      <4> QED
        BY <3>1, <4>1, <4>2, <4>3 DEF Tokens
    <3>3. CASE d # c
      BY <2>2, <3>3 DEF Tokens, Passing, Working, TypeOK
    <3> QED
      BY <3>2, <3>3
  <2> QED
    BY <2>2, <2>3 DEF Books, Free
<1>16. ASSUME NEW c \in Children, Exit(c) PROVE Books'
  BY <1>16 DEF Exit, ChildEnds, Healthy, TypeOK
<1>17. CASE UNCHANGED vars
  BY <1>17 DEF vars, Books, Tokens, Passing, Working, Free, tableVars,
    parentVars, childVars, pipeVars, connVars
<1>18. Next \/ UNCHANGED vars
  OBVIOUS
<1> QED
  BY ONLY Zenon, <1>1, <1>2, <1>3, <1>4, <1>5, <1>6, <1>7, <1>8, <1>9,
     <1>10, <1>11, <1>12, <1>13, <1>14, <1>15, <1>16, <1>17, <1>18
  DEF Next, ParentStep, Handover, ChildStep
-------------------------------------------------------------------------------
(* The results.                                                              *)

(* The server starts with every child free and nothing to look at. *)
LEMMA InitInv == Init => IndInv
<1> SUFFICES ASSUME Init PROVE IndInv
  OBVIOUS
<1>1. TypeOK
  BY ServerAssumption DEF Init, TypeOK
<1>2. Phases /\ SelectFresh
  BY DEF Init, Phases, SelectFresh
<1>3. Free = Children /\ navail = NChildren
  BY DEF Init, Free
<1>4. navail = Cardinality(Free)
  BY <1>3, FS_Interval, ServerAssumption DEF Children
<1>5. ASSUME NEW c \in Children PROVE status[c] = Tokens(c)
  BY DEF Init, Tokens, Passing, Working
<1>6. pc # "accept"
  BY DEF Init
<1> QED
  BY <1>1, <1>2, <1>4, <1>5, <1>6 DEF IndInv, Books

(* Every step of the parent, of a child, of a client and of SIGINT preserves *)
(* the types, the phases, the account of select and the books.               *)
THEOREM ServerInvariance == Spec => []IndInv
<1>1. Init => IndInv
  BY InitInv
<1>2. IndInv /\ [Next]_vars => IndInv'
  BY TypeStep, PhaseStep, SelectStep, BooksStep DEF IndInv
<1> QED
  BY <1>1, <1>2, PTL DEF Spec

(* The parent's child_status and navail agree with what the children do, for *)
(* any number of children and connections, as long as none of them has ended:*)
(* "no available children" is never reached.                                 *)
THEOREM BooksBalance == Spec => []Books
<1>1. IndInv => Books
  BY DEF IndInv
<1> QED
  BY <1>1, ServerInvariance, PTL

(* The parent never reads a pipe that has nothing to read, and its count of  *)
(* descriptors reaches 0 at the last of them, whatever happens meanwhile.    *)
THEOREM SelectStaysFresh == Spec => []SelectFresh
<1>1. IndInv => SelectFresh
  BY DEF IndInv
<1> QED
  BY <1>1, ServerInvariance, PTL

(* The types, for any number of children and connections. *)
THEOREM ServerTypes == Spec => []TypeOK
<1>1. IndInv => TypeOK
  BY DEF IndInv
<1> QED
  BY <1>1, ServerInvariance, PTL

-------------------------------------------------------------------------------
(* The connections, as sequences and as sets.                                *)

(* The empty sequence. *)
LEMMA NoMembers == Members(<<>>) = {} /\ Distinct(<<>>)
BY DEF Members, Distinct

(* Appending a connection that is not there. *)
LEMMA AddMember ==
  ASSUME NEW s \in Seq(Conns), NEW e \in Conns
  PROVE  /\ Members(Append(s, e)) = Members(s) \cup {e}
         /\ Distinct(s) /\ e \notin Members(s) => Distinct(Append(s, e))
<1> DEFINE t == Append(s, e)
<1>1. Len(t) = Len(s) + 1 /\ t[Len(s) + 1] = e /\ \A a \in 1 .. Len(s) : t[a] = s[a]
  OBVIOUS
<1>2. Members(t) = Members(s) \cup {e}
  <2>1. ASSUME NEW x \in Members(t) PROVE x \in Members(s) \cup {e}
    BY <1>1, <2>1 DEF Members
  <2>2. ASSUME NEW x \in Members(s) PROVE x \in Members(t)
    <3>1. PICK a \in 1 .. Len(s) : x = s[a]
      BY DEF Members
    <3> QED
      BY <1>1, <3>1 DEF Members
  <2>3. e \in Members(t)
    <3>1. Len(s) + 1 \in 1 .. Len(t)
      BY <1>1
    <3> QED
      BY <1>1, <3>1 DEF Members
  <2> QED
    BY <2>1, <2>2, <2>3
<1>3. ASSUME Distinct(s), e \notin Members(s) PROVE Distinct(t)
  <2>1. \A a \in 1 .. Len(s) : s[a] # e
    BY <1>3 DEF Members
  <2> QED
    BY <1>1, <1>3, <2>1 DEF Distinct
<1> QED
  BY <1>2, <1>3

(* Taking the first one off. *)
LEMMA TakeMember ==
  ASSUME NEW s \in Seq(Conns), s # <<>>, Distinct(s)
  PROVE  /\ Head(s) \in Members(s) /\ Head(s) \in Conns
         /\ Members(Tail(s)) = Members(s) \ {Head(s)}
         /\ Distinct(Tail(s))
<1> DEFINE t == Tail(s)
<1>1. /\ Len(s) \in Nat /\ Len(s) > 0 /\ Len(t) = Len(s) - 1 /\ Head(s) = s[1]
      /\ \A a \in 1 .. Len(t) : t[a] = s[a + 1]
  OBVIOUS
<1>2. Head(s) \in Members(s) /\ Head(s) \in Conns
  <2>1. 1 \in 1 .. Len(s)
    BY <1>1
  <2> QED
    BY <1>1, <2>1 DEF Members
<1>3. ASSUME NEW x \in Members(t) PROVE x \in Members(s) \ {Head(s)}
  <2>1. PICK a \in 1 .. Len(t) : x = t[a]
    BY DEF Members
  <2>2. a + 1 \in 1 .. Len(s) /\ x = s[a + 1] /\ 1 \in 1 .. Len(s) /\ a + 1 # 1
    BY <1>1, <2>1
  <2> QED
    BY <1>1, <2>2 DEF Members, Distinct
<1>4. ASSUME NEW x \in Members(s), x # Head(s) PROVE x \in Members(t)
  <2>1. PICK a \in 1 .. Len(s) : x = s[a]
    BY DEF Members
  <2>2. a - 1 \in 1 .. Len(t) /\ t[a - 1] = s[(a - 1) + 1]
    BY <1>1, <1>4, <2>1
  <2>3. t[a - 1] = x
    BY <2>1, <2>2
  <2> QED
    BY <2>2, <2>3 DEF Members
<1>5. Distinct(t)
  <2> SUFFICES ASSUME NEW a \in 1 .. Len(t), NEW b \in 1 .. Len(t), t[a] = t[b] PROVE a = b
    BY DEF Distinct
  <2>1. a + 1 \in 1 .. Len(s) /\ b + 1 \in 1 .. Len(s) /\ s[a + 1] = s[b + 1]
    BY <1>1
  <2>2. a + 1 = b + 1
    BY <2>1 DEF Distinct
  <2> QED
    BY <2>2
<1> QED
  BY <1>2, <1>3, <1>4, <1>5

(* Taking the k-th one out: what is left, by position ... *)
LEMMA DropShape ==
  ASSUME NEW s \in Seq(Conns), NEW k \in 1 .. Len(s), NEW t,
         t = SubSeq(s, 1, k - 1) \o SubSeq(s, k + 1, Len(s))
  PROVE  /\ t \in Seq(Conns)
         /\ Len(t) = Len(s) - 1
         /\ \A a \in 1 .. k - 1 : t[a] = s[a]
         /\ \A a \in k .. Len(s) - 1 : t[a] = s[a + 1]
<1> DEFINE n == Len(s)
           u == SubSeq(s, 1, k - 1)
           v == SubSeq(s, k + 1, n)
<1>1. n \in Nat /\ k \in Nat /\ k <= n /\ n = Len(s)
  OBVIOUS
<1>2. /\ u \in Seq(Conns)
      /\ Len(u) = k - 1
      /\ \A a \in 1 .. k - 1 : u[a] = s[a]
  BY <1>1
<1>3. /\ v \in Seq(Conns)
      /\ Len(v) = n - k
      /\ \A a \in 1 .. n - k : v[a] = s[k + a]
  BY <1>1
<1>4. t = u \o v
  OBVIOUS
<1> HIDE DEF n, u, v
<1>5. /\ t \in Seq(Conns)
      /\ Len(t) = Len(u) + Len(v)
      /\ \A a \in 1 .. Len(u) + Len(v) : t[a] = IF a <= Len(u) THEN u[a] ELSE v[a - Len(u)]
  <2>1. u \in Seq(Conns) /\ v \in Seq(Conns)
    BY <1>2, <1>3
  <2> QED
    BY ONLY <1>4, <2>1
<1>6. Len(t) = n - 1
  BY ONLY <1>1, <1>2, <1>3, <1>5
<1>7. ASSUME NEW a \in 1 .. k - 1 PROVE t[a] = s[a]
  <2>1. a \in 1 .. Len(u) + Len(v) /\ a <= Len(u)
    BY ONLY a \in 1 .. k - 1, <1>1, <1>2, <1>3
  <2> QED
    BY ONLY a \in 1 .. k - 1, <1>2, <1>5, <2>1
<1>8. ASSUME NEW a \in k .. n - 1 PROVE t[a] = s[a + 1]
  <2>1. /\ a \in 1 .. Len(u) + Len(v) /\ ~(a <= Len(u))
        /\ a - Len(u) \in 1 .. n - k /\ k + (a - Len(u)) = a + 1
    BY ONLY a \in k .. n - 1, <1>1, <1>2, <1>3
  <2> QED
    BY ONLY <1>3, <1>5, <2>1
<1> QED
  BY <1>1, <1>5, <1>6, <1>7, <1>8

(* ... and as a set. *)
LEMMA DropMember ==
  ASSUME NEW s \in Seq(Conns), NEW k \in 1 .. Len(s), Distinct(s),
         NEW t \in Seq(Conns), Len(t) = Len(s) - 1,
         \A a \in 1 .. k - 1 : t[a] = s[a],
         \A a \in k .. Len(s) - 1 : t[a] = s[a + 1]
  PROVE  /\ s[k] \in Members(s) /\ s[k] \in Conns
         /\ Members(t) = Members(s) \ {s[k]}
         /\ Distinct(t)
<1>1. Len(s) \in Nat /\ k \in Nat
  OBVIOUS
<1>2. /\ Len(t) = Len(s) - 1
      /\ \A a \in 1 .. k - 1 : t[a] = s[a]
      /\ \A a \in k .. Len(s) - 1 : t[a] = s[a + 1]
  OBVIOUS
<1>3. s[k] \in Members(s) /\ s[k] \in Conns
  BY DEF Members
<1>4. ASSUME NEW x \in Members(t) PROVE x \in Members(s) \ {s[k]}
  <2>1. PICK a \in 1 .. Len(s) - 1 : x = t[a]
    BY <1>2 DEF Members
  <2>2. PICK b \in 1 .. Len(s) : x = s[b] /\ b # k
    BY <1>1, <1>2, <2>1
  <2> QED
    BY <2>2 DEF Members, Distinct
<1>5. ASSUME NEW x \in Members(s), x # s[k] PROVE x \in Members(t)
  <2>1. PICK b \in 1 .. Len(s) : x = s[b]
    BY DEF Members
  <2>2. CASE b < k
    <3>1. b \in 1 .. Len(t) /\ t[b] = x
      BY <1>1, <1>2, <2>1, <2>2
    <3> QED
      BY <3>1 DEF Members
  <2>3. CASE b > k
    <3>1. b - 1 \in 1 .. Len(t) /\ b - 1 \in k .. Len(s) - 1
      BY <1>1, <1>2, <2>1, <2>3
    <3>2. t[b - 1] = s[(b - 1) + 1]
      BY <1>2, <3>1
    <3>3. t[b - 1] = x
      BY <2>1, <3>2
    <3> QED
      BY <3>1, <3>3 DEF Members
  <2> QED
    BY <1>1, <1>5, <2>1, <2>2, <2>3
<1>6. Distinct(t)
  <2> SUFFICES ASSUME NEW a \in 1 .. Len(t), NEW b \in 1 .. Len(t), t[a] = t[b] PROVE a = b
    BY DEF Distinct
  <2> DEFINE old(x) == IF x < k THEN x ELSE x + 1
  <2>1. ASSUME NEW x \in 1 .. Len(t) PROVE old(x) \in 1 .. Len(s) /\ t[x] = s[old(x)]
    BY <1>1, <1>2
  <2>2. old(a) = old(b)
    <3> HIDE DEF old
    <3> QED
      BY <2>1 DEF Distinct
  <2> QED
    BY <1>1, <2>2
<1> QED
  BY <1>3, <1>4, <1>5, <1>6

-------------------------------------------------------------------------------
(* Every action moves a connection from one place to one other, or none.     *)

(* What the types say of the places. *)
LEMMA PlaceTypes ==
  ASSUME TypeOK
  PROVE  /\ Waiting \subseteq Conns /\ None \notin Conns
         /\ \A c \in Children : Sent(c) \subseteq Conns
         /\ \A c \in Children : cconn[c] \in Conns \cup {None}
         /\ served \subseteq Conns /\ lost \subseteq Conns /\ connfd \in Conns \cup {None}
BY MembersType DEF TypeOK, Waiting, Sent, Conns, None

(* A step of the parent that moves no connection, except that it closes its copy. *)
LEMMA PlacesKept ==
  ASSUME TypeOK, Places,
         UNCHANGED <<backlog, arrived, served, lost, down, cconn>>,
         connfd' = connfd \/ (pc = "close" /\ connfd' = None),
         pc' = "pass" => pc = "pass" /\ connfd' = connfd,
         pc' \notin {"pass", "reap"} => pc \notin {"pass", "reap"}
  PROVE  Places'
<1>1. Waiting' = Waiting /\ arrived' = arrived /\ served' = served /\ lost' = lost
      /\ Over' = Over
  BY DEF Waiting, Over
<1>2. \A c \in Children : Sent(c)' = Sent(c) /\ cconn'[c] = cconn[c]
  BY DEF Sent
<1>3. \A k : Passed(k)' <=> Passed(k)
  BY <1>1, <1>2 DEF Passed
<1>4. connfd' = connfd \/ (connfd' = None /\ (connfd = None \/ Passed(connfd)))
  BY DEF Places
<1>5. \A k \in Conns : (k = connfd' => k = connfd) /\ (k = connfd => k = connfd' \/ Passed(k))
  BY <1>4, PlaceTypes
<1>6. pc' = "pass" => ~Passed(connfd')
  BY DEF Places
<1>7. pc' \notin {"pass", "reap"} => connfd' = None \/ Passed(connfd')
  BY DEF Places
<1>8. \A k \in Conns : k <= arrived <=> k \in Waiting \/ k = connfd' \/ Passed(k)
  BY <1>5 DEF Places
<1>9. \A k \in Waiting : k # connfd' /\ ~Passed(k)
  BY <1>5, PlaceTypes DEF Places
<1> QED
  BY SMTT(30), <1>1, <1>2, <1>3, <1>6, <1>7, <1>8, <1>9 DEF Places

(* A process of the parent ends, and refuses R besides the backlog. *)
LEMMA PlacesParentEnds ==
  ASSUME TypeOK, Places, NEW how \in Gone, NEW R, R \subseteq {connfd} \ {None},
         ParentEnds(how, R), UNCHANGED <<arrived, served, down, cconn>>,
         \A k \in R : ~Passed(k) \/ k \in lost,
         connfd = None \/ Passed(connfd) \/ connfd \in R
  PROVE  Places'
<1>1. /\ Waiting' = {} /\ connfd' = None /\ arrived' = arrived /\ served' = served
      /\ pc' \in Gone /\ lost' = lost \cup R \cup Waiting
      /\ Over' = Over \cup R \cup Waiting
  BY NoMembers DEF ParentEnds, Waiting, Over
<1>2. \A c \in Children : Sent(c)' = Sent(c) /\ cconn'[c] = cconn[c]
  BY DEF Sent
<1>3. \A k \in Conns : Passed(k)' <=> Passed(k) \/ k \in R \/ k \in Waiting
  BY <1>1, <1>2 DEF Passed
<1>4. \A k \in R \cup Waiting : ~Passed(k) \/ k \in lost
  BY DEF Places
<1>5. \A k \in Conns : k <= arrived <=> Passed(k)'
  BY <1>3, PlaceTypes DEF Places
<1>6. \A c \in Children : \A k \in Sent(c) : k \notin R /\ k \notin Waiting
  BY <1>4 DEF Places, Passed, Over
<1>7. \A c \in Children : cconn[c] # None => cconn[c] \notin R /\ cconn[c] \notin Waiting
  BY <1>4 DEF Places, Passed, Over
<1>8. served' \cap lost' = {}
  BY <1>1, <1>4 DEF Places, Passed, Over
<1> QED
  BY SMTT(30), <1>1, <1>2, <1>5, <1>6, <1>7, <1>8, PlaceTypes DEF Places, Gone

(* A child ends and what it had or was sent is lost. *)
LEMMA PlacesChildEnds ==
  ASSUME TypeOK, Phases, Places, NEW c \in Children, ChildEnds(c),
         UNCHANGED <<pc, connfd, backlog, arrived, served>>
  PROVE  Places'
<1>1. Waiting' = Waiting /\ connfd' = connfd /\ arrived' = arrived /\ served' = served
      /\ pc' = pc
  BY DEF Waiting
<1>2. /\ cconn'[c] = None /\ Sent(c)' = {}
      /\ \A d \in Children : d # c => Sent(d)' = Sent(d) /\ cconn'[d] = cconn[d]
  BY NoMembers DEF ChildEnds, Sent, TypeOK
<1>3. /\ lost' = lost \cup ({cconn[c]} \ {None}) \cup Sent(c)
      /\ Over' = Over \cup ({cconn[c]} \ {None}) \cup Sent(c)
  BY DEF ChildEnds, Sent, Over
<1>4. \A k \in Conns : Passed(k)' <=> Passed(k)
  BY <1>2, <1>3, PlaceTypes DEF Passed
<1>5. \A d \in Children : d # c => \A k \in Sent(d) : k \notin Sent(c) /\ k # cconn[c]
  BY DEF Places
<1>6. \A d \in Children : d # c /\ cconn[d] # None => cconn[d] \notin Sent(c) /\ cconn[d] # cconn[c]
  BY DEF Places
<1>7. served' \cap lost' = {}
  BY <1>1, <1>3 DEF Places, Over
<1>8. \A d \in Children : \A k \in Sent(d)' :
        k \notin Over' /\ \A e \in Children : cconn'[e] # k /\ (e # d => k \notin Sent(e)')
  <2> SUFFICES ASSUME NEW d \in Children, NEW k \in Sent(d)'
               PROVE  k \notin Over' /\ \A e \in Children : cconn'[e] # k /\ (e # d => k \notin Sent(e)')
    BY Zenon
  <2>4. d # c /\ k \in Sent(d)
    BY Zenon, <1>2
  <2>5. k \in Conns
    BY Zenon, <2>4, PlaceTypes
  <2>1. k \notin Over /\ \A e \in Children : cconn[e] # k /\ (e # d => k \notin Sent(e))
    BY Zenon, <2>4 DEF Places
  <2>2. k \notin Over'
    BY Zenon, <2>1, <2>4, <1>3, <1>5
  <2>3. k # None
    BY Zenon, <2>5, PlaceTypes
  <2> QED
    BY Zenon, <2>1, <2>2, <2>3, <1>2
<1>9. \A d \in Children : cconn'[d] # None =>
        cconn'[d] \notin Over' /\ \A e \in Children : e # d => cconn'[e] # cconn'[d]
  BY <1>2, <1>3, <1>6 DEF Places
<1>10. (pc' = "pass" => ~Passed(connfd)') /\ (pc' \notin {"pass", "reap"} => connfd' = None \/ Passed(connfd)')
  <2>1. connfd \in Conns => (Passed(connfd)' <=> Passed(connfd))
    BY <1>1, <1>4
  <2> QED
    BY <1>1, <2>1, PlaceTypes DEF Places, Phases
<1> QED
  BY <1>1, <1>4, <1>7, <1>8, <1>9, <1>10, PlaceTypes DEF Places

(* A client connects. *)
LEMMA PlacesConnect ==
  ASSUME TypeOK, Phases, Places, Connect
  PROVE  Places'
<1>1. /\ arrived + 1 \in Conns /\ arrived \in Nat /\ arrived' = arrived + 1
      /\ backlog' = Append(backlog, arrived + 1) /\ backlog \in Seq(Conns)
  BY ServerAssumption DEF Connect, TypeOK, Conns
<1>2. Waiting' = Waiting \cup {arrived + 1}
  BY <1>1, AddMember DEF Waiting
<1>3. /\ connfd' = connfd /\ pc' = pc /\ served' = served /\ lost' = lost /\ Over' = Over
      /\ \A c \in Children : Sent(c)' = Sent(c) /\ cconn'[c] = cconn[c]
  BY DEF Connect, parentVars, childVars, pipeVars, Sent, Over
<1>4. \A k : Passed(k)' <=> Passed(k)
  BY <1>3 DEF Passed
<1>5. arrived + 1 # connfd /\ ~Passed(arrived + 1)
  BY <1>1 DEF Places
<1>6. \A k \in Conns : k <= arrived + 1 <=> k <= arrived \/ k = arrived + 1
  BY <1>1 DEF Conns
<1>7. \A k \in Conns : k <= arrived' <=> k \in Waiting' \/ k = connfd' \/ Passed(k)
  BY <1>1, <1>2, <1>3, <1>6 DEF Places
<1>8. \A k \in Waiting' : k # connfd' /\ ~Passed(k)
  BY <1>2, <1>3, <1>5 DEF Places
<1> QED
  BY SMTT(30), <1>3, <1>4, <1>7, <1>8 DEF Places

(* A client gives up: its connection moves from the backlog to the lost ones. *)
LEMMA PlacesAbort ==
  ASSUME TypeOK, Phases, Places, Shapes, NEW k \in 1 .. MaxConns, Abort(k)
  PROVE  Places'
<1> DEFINE x == backlog[k]
<1>1. backlog \in Seq(Conns) /\ k \in 1 .. Len(backlog) /\ Distinct(backlog)
  BY SMTT(30), ServerAssumption DEF TypeOK, Abort, Shapes
<1>2. /\ x \in Waiting /\ x \in Conns
      /\ Waiting' = Waiting \ {x}
  <2>1. backlog' = SubSeq(backlog, 1, k - 1) \o SubSeq(backlog, k + 1, Len(backlog))
    BY DEF Abort
  <2>2. /\ backlog' \in Seq(Conns)
        /\ Len(backlog') = Len(backlog) - 1
        /\ \A a \in 1 .. k - 1 : backlog'[a] = backlog[a]
        /\ \A a \in k .. Len(backlog) - 1 : backlog'[a] = backlog[a + 1]
    BY <1>1, <2>1, DropShape
  <2> QED
    BY <1>1, <2>2, DropMember DEF Waiting
<1>3. /\ connfd' = connfd /\ pc' = pc /\ served' = served /\ arrived' = arrived
      /\ lost' = lost \cup {x} /\ Over' = Over \cup {x}
      /\ \A c \in Children : Sent(c)' = Sent(c) /\ cconn'[c] = cconn[c]
  BY DEF Abort, parentVars, childVars, pipeVars, Sent, Over
<1> HIDE DEF x
<1>4. \A y : Passed(y)' <=> Passed(y) \/ y = x
  BY <1>3 DEF Passed
<1>5. x # connfd /\ ~Passed(x)
  BY <1>2 DEF Places
<1>6. /\ \A c \in Children : x \notin Sent(c) /\ cconn[c] # x
      /\ x \notin served
  BY <1>5 DEF Passed, Over
<1>7. \A y \in Conns : y <= arrived' <=> y \in Waiting' \/ y = connfd' \/ Passed(y)'
  BY <1>2, <1>3, <1>4 DEF Places
<1>8. \A y \in Waiting' : y # connfd' /\ ~Passed(y)'
  BY <1>2, <1>3, <1>4 DEF Places
<1>9. \A c \in Children : \A y \in Sent(c)' :
       y \notin Over' /\ \A d \in Children : cconn'[d] # y /\ (d # c => y \notin Sent(d)')
  BY SMTT(30), <1>3, <1>6 DEF Places
<1>10. \A c \in Children : cconn'[c] # None =>
       cconn'[c] \notin Over' /\ \A d \in Children : d # c => cconn'[d] # cconn'[c]
  BY <1>3, <1>6 DEF Places
<1>11. served' \cap lost' = {}
  BY <1>3, <1>6 DEF Places
<1>12. Passed(connfd)' <=> Passed(connfd)
  BY <1>3, <1>4, <1>5
<1> QED
  BY <1>3, <1>7, <1>8, <1>9, <1>10, <1>11, <1>12 DEF Places

(* accept takes the first connection of the backlog. *)
LEMMA PlacesAccept ==
  ASSUME TypeOK, Places, Shapes, pc = "accept", backlog # <<>>,
         connfd' = Head(backlog), backlog' = Tail(backlog), pc' = "pass",
         UNCHANGED <<arrived, served, lost, down, cconn>>
  PROVE  Places'
<1> DEFINE x == Head(backlog)
<1>1. x \in Waiting /\ x \in Conns /\ Waiting' = Waiting \ {x} /\ connfd' = x
  BY TakeMember DEF TypeOK, Shapes, Waiting
<1>2. /\ served' = served /\ arrived' = arrived /\ lost' = lost /\ Over' = Over
      /\ \A c \in Children : Sent(c)' = Sent(c) /\ cconn'[c] = cconn[c]
  BY DEF Sent, Over
<1> HIDE DEF x
<1>3. \A y : Passed(y)' <=> Passed(y)
  BY <1>2 DEF Passed
<1>4. ~Passed(x) /\ (connfd = None \/ Passed(connfd))
  BY <1>1 DEF Places
<1>5. \A y \in Conns : y <= arrived <=> y \in Waiting' \/ y = x \/ Passed(y)
  BY <1>1, <1>4, PlaceTypes DEF Places
<1>6. \A y \in Waiting' : y # x /\ ~Passed(y)
  BY <1>1 DEF Places
<1>7. Passed(connfd)' <=> Passed(x)
  BY <1>1, <1>3
<1> QED
  BY SMTT(30), <1>1, <1>2, <1>3, <1>4, <1>5, <1>6, <1>7 DEF Places

(* Write_fd puts the accepted connection into the pipe of child p. *)
LEMMA PlacesPass ==
  ASSUME TypeOK, Phases, Places, pc = "pass", pc' = "close", NEW p \in Children,
         down' = [down EXCEPT ![p] = Append(@, connfd)],
         UNCHANGED <<arrived, served, lost, backlog, connfd, cconn>>
  PROVE  Places'
<1>1. connfd \in Conns /\ connfd # None /\ connfd' = connfd
  BY DEF Phases, TypeOK
<1>2. /\ Sent(p)' = Sent(p) \cup {connfd}
      /\ \A c \in Children : c # p => Sent(c)' = Sent(c)
  <2>1. down[p] \in Seq(Conns) /\ down'[p] = Append(down[p], connfd)
    BY <1>1 DEF TypeOK
  <2>2. Members(down'[p]) = Members(down[p]) \cup {connfd}
    BY <1>1, <2>1, AddMember
  <2>3. \A c \in Children : c # p => down'[c] = down[c]
    BY DEF TypeOK
  <2> QED
    BY <2>2, <2>3 DEF Sent
<1>3. /\ Waiting' = Waiting /\ arrived' = arrived /\ served' = served /\ lost' = lost
      /\ Over' = Over /\ \A c \in Children : cconn'[c] = cconn[c]
  BY DEF Waiting, Over
<1>4. \A y : Passed(y)' <=> Passed(y) \/ y = connfd
  BY <1>2, <1>3 DEF Passed
<1>5. ~Passed(connfd) /\ connfd \notin Waiting
  BY DEF Places
<1>6. connfd \notin Over /\ \A c \in Children : connfd \notin Sent(c) /\ cconn[c] # connfd
  BY <1>5 DEF Passed
<1>7. \A c \in Children : \A y \in Sent(c)' :
       y \notin Over /\ \A d \in Children : cconn[d] # y /\ (d # c => y \notin Sent(d)')
  BY <1>2, <1>6 DEF Places
<1>8. \A y \in Conns : y <= arrived <=> y \in Waiting \/ y = connfd \/ Passed(y)'
  BY <1>4 DEF Places
<1>9. \A y \in Waiting : y # connfd /\ ~Passed(y)'
  BY <1>4 DEF Places
<1>10. Passed(connfd)'
  BY <1>1, <1>4
<1> QED
  BY <1>1, <1>3, <1>7, <1>8, <1>9, <1>10 DEF Places

(* Read_fd takes a connection out of the pipe of child c. *)
LEMMA PlacesRead ==
  ASSUME TypeOK, Phases, Places, Shapes, NEW c \in Children, cpc[c] = "read",
         down[c] # <<>>,
         cconn' = [cconn EXCEPT ![c] = Head(down[c])],
         down' = [down EXCEPT ![c] = Tail(@)],
         UNCHANGED <<pc, arrived, served, lost, backlog, connfd>>
  PROVE  Places'
<1> DEFINE x == Head(down[c])
<1>1. /\ x \in Sent(c) /\ x \in Conns
      /\ Sent(c)' = Sent(c) \ {x}
      /\ \A d \in Children : d # c => Sent(d)' = Sent(d)
  <2>1. down[c] \in Seq(Conns) /\ Distinct(down[c]) /\ down'[c] = Tail(down[c])
    BY DEF TypeOK, Shapes
  <2>2. x \in Members(down[c]) /\ x \in Conns /\ Members(down'[c]) = Members(down[c]) \ {x}
    BY <2>1, TakeMember
  <2>3. \A d \in Children : d # c => down'[d] = down[d]
    BY DEF TypeOK
  <2> QED
    BY <2>2, <2>3 DEF Sent
<1>2. cconn[c] = None /\ cconn'[c] = x /\ \A d \in Children : d # c => cconn'[d] = cconn[d]
  BY DEF TypeOK, Shapes
<1>3. /\ Waiting' = Waiting /\ arrived' = arrived /\ served' = served /\ lost' = lost
      /\ Over' = Over /\ connfd' = connfd /\ pc' = pc
  BY DEF Waiting, Over
<1> HIDE DEF x
<1>4. \A y \in Conns : Passed(y)' <=> Passed(y)
  BY <1>1, <1>2, <1>3, PlaceTypes DEF Passed
<1>5. /\ x \notin Over
      /\ \A d \in Children : cconn[d] # x /\ (d # c => x \notin Sent(d))
  BY <1>1 DEF Places
<1>6. \A d \in Children : \A y \in Sent(d)' :
       y \notin Over /\ \A e \in Children : cconn'[e] # y /\ (e # d => y \notin Sent(e)')
  BY SMTT(30), <1>1, <1>2, <1>5 DEF Places
<1>7. \A d \in Children : cconn'[d] # None =>
       cconn'[d] \notin Over /\ \A e \in Children : e # d => cconn'[e] # cconn'[d]
  BY SMTT(30), <1>2, <1>5 DEF Places
<1>8. connfd \in Conns => (Passed(connfd)' <=> Passed(connfd))
  BY <1>3, <1>4
<1>9. (pc' = "pass" => ~Passed(connfd)') /\ (pc' \notin {"pass", "reap"} => connfd' = None \/ Passed(connfd)')
  BY <1>3, <1>8, PlaceTypes DEF Places, Phases
<1> QED
  BY SMTT(30), <1>3, <1>4, <1>6, <1>7, <1>9, PlaceTypes DEF Places

(* web_child returns: the connection of child c was served. *)
LEMMA PlacesServed ==
  ASSUME TypeOK, Phases, Places, NEW c \in Children, cpc[c] = "serve",
         served' = served \cup {cconn[c]},
         cconn' = [cconn EXCEPT ![c] = None],
         UNCHANGED <<pc, arrived, down, lost, backlog, connfd>>
  PROVE  Places'
<1>1. cconn[c] # None /\ cconn[c] \in Conns
  BY DEF Phases, TypeOK
<1>2. cconn'[c] = None /\ \A d \in Children : d # c => cconn'[d] = cconn[d]
  BY DEF TypeOK
<1>3. /\ Waiting' = Waiting /\ arrived' = arrived /\ lost' = lost /\ connfd' = connfd
      /\ pc' = pc /\ Over' = Over \cup {cconn[c]}
      /\ \A d \in Children : Sent(d)' = Sent(d)
  BY DEF Waiting, Over, Sent
<1>4. \A y \in Conns : Passed(y)' <=> Passed(y)
  BY <1>1, <1>2, <1>3, PlaceTypes DEF Passed
<1>5. cconn[c] \notin Over /\ \A d \in Children : d # c => cconn[d] # cconn[c]
  BY <1>1 DEF Places
<1>6. \A d \in Children : \A y \in Sent(d) :
       y \notin Over' /\ \A e \in Children : cconn'[e] # y /\ (e # d => y \notin Sent(e))
  BY SMTT(30), <1>1, <1>2, <1>3, PlaceTypes DEF Places
<1>7. \A d \in Children : cconn'[d] # None =>
       cconn'[d] \notin Over' /\ \A e \in Children : e # d => cconn'[e] # cconn'[d]
  BY <1>2, <1>3, <1>5 DEF Places
<1>8. served' \cap lost' = {}
  BY <1>3, <1>5 DEF Places, Over
<1>9. connfd \in Conns => (Passed(connfd)' <=> Passed(connfd))
  BY <1>3, <1>4
<1>10. (pc' = "pass" => ~Passed(connfd)') /\ (pc' \notin {"pass", "reap"} => connfd' = None \/ Passed(connfd)')
  BY <1>3, <1>9, PlaceTypes DEF Places, Phases
<1> QED
  BY SMTT(30), <1>3, <1>4, <1>6, <1>7, <1>8, <1>10, PlaceTypes DEF Places

(* No sequence holds a connection twice, and only a child that serves has one open. *)
LEMMA ShapeStep == IndInv /\ Places /\ Shapes /\ [Next]_vars => Shapes'
<1> SUFFICES ASSUME IndInv, Places, Shapes, [Next]_vars PROVE Shapes'
  OBVIOUS
<1>0. TypeOK /\ Phases
  BY DEF IndInv
<1>a. ASSUME backlog' = backlog \/ backlog' = <<>>, UNCHANGED <<down, cpc, cconn>>
      PROVE  Shapes'
  BY <1>a, NoMembers DEF Shapes
<1>b. ASSUME NEW c \in Children, UNCHANGED backlog, ChildEnds(c)
      PROVE  Shapes'
  BY <1>0, <1>b, NoMembers DEF Shapes, ChildEnds, TypeOK
<1>c. ASSUME NEW c \in Children, NEW p, UNCHANGED <<backlog, down, cconn>>,
             cpc' = [cpc EXCEPT ![c] = p],
             p # "exited", p \in {"serve", "dying"} \/ cconn[c] = None
      PROVE  Shapes'
  BY <1>0, <1>c DEF Shapes, TypeOK
<1>1. CASE Connect
  <2>1. /\ arrived + 1 \in Conns /\ arrived \in Nat /\ backlog \in Seq(Conns)
        /\ backlog' = Append(backlog, arrived + 1)
    BY <1>0, <1>1, ServerAssumption DEF Connect, TypeOK, Conns
  <2>2. arrived + 1 \notin Waiting
    BY <2>1 DEF Places
  <2>3. Distinct(backlog')
    BY <2>1, <2>2, AddMember DEF Shapes, Waiting
  <2> QED
    BY <1>1, <2>3 DEF Connect, Shapes, childVars, pipeVars
<1>2. ASSUME NEW k \in 1 .. MaxConns, Abort(k) PROVE Shapes'
  <2>1. backlog \in Seq(Conns) /\ k \in 1 .. Len(backlog) /\ Distinct(backlog)
    BY <1>0, <1>2, ServerAssumption DEF TypeOK, Abort, Shapes
  <2>2. backlog' = SubSeq(backlog, 1, k - 1) \o SubSeq(backlog, k + 1, Len(backlog))
    BY <1>2 DEF Abort
  <2>3. /\ backlog' \in Seq(Conns)
        /\ Len(backlog') = Len(backlog) - 1
        /\ \A a \in 1 .. k - 1 : backlog'[a] = backlog[a]
        /\ \A a \in k .. Len(backlog) - 1 : backlog'[a] = backlog[a + 1]
    BY <2>1, <2>2, DropShape
  <2>4. Distinct(backlog')
    BY <2>1, <2>3, DropMember
  <2> QED
    BY <1>2, <2>4 DEF Abort, Shapes, childVars, pipeVars
<1>3. CASE MakeChild
  <2>1. CASE i < NChildren
    <3>1. i \in Children
      BY <1>0, <2>1, ServerAssumption DEF TypeOK, Children
    <3>2. cpc[i] = "none"
      BY <1>0, <1>3, <3>1 DEF MakeChild, Phases, Children
    <3>3. cconn[i] = None
      BY <3>1, <3>2 DEF Shapes
    <3>4. UNCHANGED <<backlog, down, cconn>> /\ cpc' = [cpc EXCEPT ![i] = "read"]
      BY <1>3, <2>1 DEF MakeChild, pipeVars, connVars
    <3> QED
      BY <1>c, <3>1, <3>3, <3>4
  <2>2. CASE ~(i < NChildren)
    BY <1>3, <1>a, <2>2 DEF MakeChild, pipeVars, connVars
  <2> QED
    BY <2>1, <2>2
<1>4. CASE CallFails
  BY <1>a, <1>4 DEF CallFails, ParentEnds, childVars, pipeVars
<1>5. CASE Select
  BY <1>a, <1>5 DEF Select, childVars, pipeVars, connVars
<1>6. CASE Accept
  <2>1. CASE Free = {}
    BY <1>a, <1>6, <2>1 DEF Accept, ParentEnds, childVars, pipeVars
  <2>2. CASE Free # {}
    <3>1. backlog \in Seq(Conns) /\ backlog # <<>> /\ backlog' = Tail(backlog)
      BY <1>0, <1>6, <2>2 DEF Accept, TypeOK
    <3>2. Distinct(backlog')
      BY <3>1, TakeMember DEF Shapes
    <3> QED
      BY <1>6, <3>2 DEF Accept, Shapes, childVars, pipeVars
  <2> QED
    BY <2>1, <2>2
<1>7. CASE Pass
  <2>1. CASE Ended(i)
    BY <1>a, <1>7, <2>1 DEF Pass, ParentEnds, childVars
  <2>2. CASE ~Ended(i)
    <3>1. i \in Children /\ connfd \in Conns /\ pc = "pass"
      BY <1>0, <1>7 DEF Pass, Phases, TypeOK
    <3>2. /\ down' = [down EXCEPT ![i] = Append(@, connfd)]
          /\ UNCHANGED <<backlog, cpc, cconn>>
      BY <1>7, <2>2 DEF Pass, childVars
    <3>3. connfd \notin Members(down[i])
      BY <3>1 DEF Places, Passed, Sent
    <3>4. down[i] \in Seq(Conns) /\ down'[i] = Append(down[i], connfd)
      BY <1>0, <3>1, <3>2 DEF TypeOK
    <3>5. Distinct(down'[i])
      BY <3>1, <3>3, <3>4, AddMember DEF Shapes
    <3>6. \A c \in Children : c # i => down'[c] = down[c]
      BY <1>0, <3>2 DEF TypeOK
    <3> QED
      BY <2>2, <3>2, <3>5, <3>6 DEF Shapes, Ended
  <2> QED
    BY <2>1, <2>2
<1>8. CASE CloseConn
  BY <1>a, <1>8 DEF CloseConn, childVars, pipeVars, connVars
<1>9. CASE Scan
  BY <1>a, <1>9 DEF Scan, ParentEnds, childVars
<1>10. CASE SigInt
  BY <1>a, <1>10 DEF SigInt, pipeVars, connVars
<1>11. CASE Reap
  BY <1>a, <1>11 DEF Reap, ParentEnds, childVars, pipeVars
<1>12. ASSUME NEW c \in Children, ChildRead(c) PROVE Shapes'
  <2>1. CASE down[c] # <<>>
    <3>1. /\ cconn' = [cconn EXCEPT ![c] = Head(down[c])]
          /\ down' = [down EXCEPT ![c] = Tail(@)]
          /\ cpc' = [cpc EXCEPT ![c] = "serve"]
          /\ UNCHANGED backlog
      BY <1>12, <2>1 DEF ChildRead
    <3>2. down[c] \in Seq(Conns) /\ down'[c] = Tail(down[c])
      BY <1>0, <3>1 DEF TypeOK
    <3>3. Distinct(down'[c])
      BY <2>1, <3>2, TakeMember DEF Shapes
    <3>4. /\ cpc'[c] = "serve"
          /\ \A d \in Children : d # c =>
               down'[d] = down[d] /\ cpc'[d] = cpc[d] /\ cconn'[d] = cconn[d]
      BY <1>0, <3>1 DEF TypeOK
    <3> QED
      BY <3>1, <3>3, <3>4 DEF Shapes
  <2>2. CASE down[c] = <<>>
    BY <1>b, <1>12, <2>2 DEF ChildRead
  <2> QED
    BY <2>1, <2>2
<1>13. ASSUME NEW c \in Children, ServeReturn(c) PROVE Shapes'
  <2>1. /\ cpc' = [cpc EXCEPT ![c] = "notify"] /\ cconn' = [cconn EXCEPT ![c] = None]
        /\ UNCHANGED <<backlog, down>>
    BY <1>13 DEF ServeReturn, pipeVars
  <2> QED
    BY <1>0, <2>1 DEF Shapes, TypeOK
<1>14. ASSUME NEW c \in Children, ServeFails(c) PROVE Shapes'
  <2>1. \/ ChildEnds(c)
        \/ cpc' = [cpc EXCEPT ![c] = "dying"] /\ UNCHANGED <<cconn, down>>
    BY <1>14 DEF ServeFails
  <2>2. UNCHANGED backlog
    BY <1>14 DEF ServeFails
  <2> QED
    BY <1>b, <1>c, <2>1, <2>2
<1>15. ASSUME NEW c \in Children, Notify(c) PROVE Shapes'
  <2>1. \/ ChildEnds(c)
        \/ cpc' = [cpc EXCEPT ![c] = "read"] /\ UNCHANGED <<cconn, down>>
    BY <1>15 DEF Notify
  <2>2. UNCHANGED backlog /\ cconn[c] = None
    BY <1>15 DEF Notify, Shapes
  <2> QED
    BY <1>b, <1>c, <2>1, <2>2
<1>16. ASSUME NEW c \in Children, Exit(c) PROVE Shapes'
  BY <1>b, <1>16 DEF Exit
<1>17. CASE UNCHANGED vars
  BY <1>a, <1>17 DEF vars, childVars, pipeVars, connVars
<1>18. Next \/ UNCHANGED vars
  OBVIOUS
<1> QED
  BY ONLY Zenon, <1>1, <1>2, <1>3, <1>4, <1>5, <1>6, <1>7, <1>8, <1>9,
     <1>10, <1>11, <1>12, <1>13, <1>14, <1>15, <1>16, <1>17, <1>18
  DEF Next, ParentStep, Handover, ChildStep

(* Every step moves a connection from one place to one other, or none. *)
LEMMA PlaceStep == IndInv /\ Places /\ Shapes /\ [Next]_vars => Places'
<1> SUFFICES ASSUME IndInv, Places, Shapes, [Next]_vars PROVE Places'
  OBVIOUS
<1>0. TypeOK /\ Phases
  BY DEF IndInv
<1>a. pc \notin {"pass", "reap"} => connfd = None \/ Passed(connfd)
  BY DEF Places
<1>b. ASSUME ParentEnds("quit", {}), UNCHANGED <<arrived, served, down, cconn>>,
             pc \notin {"pass", "reap"}
      PROVE  Places'
  BY <1>0, <1>a, <1>b, PlacesParentEnds DEF Gone
<1>1. CASE Connect
  BY <1>0, <1>1, PlacesConnect
<1>2. ASSUME NEW k \in 1 .. MaxConns, Abort(k) PROVE Places'
  BY <1>0, <1>2, PlacesAbort
<1>3. CASE MakeChild
  <2>1. /\ UNCHANGED <<backlog, arrived, served, lost, down, cconn, connfd>>
        /\ pc = "make" /\ pc' \in {"make", "select"}
    BY <1>3 DEF MakeChild, pipeVars, connVars
  <2> QED
    BY <1>0, <2>1, PlacesKept
<1>4. CASE CallFails
  BY <1>b, <1>4 DEF CallFails, childVars, pipeVars
<1>5. CASE Select
  <2>1. /\ UNCHANGED <<backlog, arrived, served, lost, down, cconn, connfd>>
        /\ pc = "select" /\ pc' \in {"accept", "scan"}
    BY <1>5 DEF Select, childVars, pipeVars, connVars
  <2> QED
    BY <1>0, <2>1, PlacesKept
<1>6. CASE Accept
  <2>1. CASE Free = {}
    BY <1>b, <1>6, <2>1 DEF Accept, childVars, pipeVars
  <2>2. CASE Free # {}
    <3>1. /\ pc = "accept" /\ backlog # <<>>
          /\ connfd' = Head(backlog) /\ backlog' = Tail(backlog) /\ pc' = "pass"
          /\ UNCHANGED <<arrived, served, lost, down, cconn>>
      BY <1>6, <2>2 DEF Accept, childVars, pipeVars
    <3> QED
      BY <1>0, <3>1, PlacesAccept
  <2> QED
    BY <2>1, <2>2
<1>7. CASE Pass
  <2>1. pc = "pass" /\ i \in Children /\ connfd # None /\ ~Passed(connfd)
    BY <1>0, <1>7 DEF Pass, Phases, Places
  <2>2. CASE Ended(i)
    <3>1. ParentEnds("quit", {connfd}) /\ UNCHANGED <<arrived, served, down, cconn>>
      BY <1>7, <2>2 DEF Pass, childVars
    <3> QED
      BY <1>0, <2>1, <3>1, PlacesParentEnds DEF Gone
  <2>3. CASE ~Ended(i)
    <3>1. /\ pc' = "close" /\ down' = [down EXCEPT ![i] = Append(@, connfd)]
          /\ UNCHANGED <<arrived, served, lost, backlog, connfd, cconn>>
      BY <1>7, <2>3 DEF Pass, childVars
    <3> QED
      BY <1>0, <2>1, <3>1, PlacesPass
  <2> QED
    BY <2>2, <2>3
<1>8. CASE CloseConn
  <2>1. /\ UNCHANGED <<backlog, arrived, served, lost, down, cconn>>
        /\ connfd' = None /\ pc = "close" /\ pc' \in {"select", "scan"}
    BY <1>8 DEF CloseConn, childVars, pipeVars, connVars
  <2> QED
    BY <1>0, <2>1, PlacesKept
<1>9. CASE Scan
  <2>1. pc = "scan" /\ UNCHANGED <<arrived, served, down, cconn>>
    BY <1>9 DEF Scan, childVars
  <2>2. \/ ParentEnds("quit", {})
        \/ UNCHANGED <<connfd, backlog, lost>> /\ pc' \in {"select", "scan"}
    BY <1>9 DEF Scan
  <2> QED
    BY <1>0, <1>b, <2>1, <2>2, PlacesKept
<1>10. CASE SigInt
  <2>1. UNCHANGED <<backlog, arrived, served, lost, down, cconn, connfd>> /\ pc' = "reap"
    BY <1>10 DEF SigInt, pipeVars, connVars
  <2> QED
    BY <1>0, <2>1, PlacesKept
<1>11. CASE Reap
  <2> DEFINE R == {connfd} \ ({None} \cup served)
  <2>1. /\ ParentEnds("done", R) /\ UNCHANGED <<arrived, served, down, cconn>>
        /\ \A c \in Children : cpc[c] = "exited"
    BY <1>11 DEF Reap, Ended, childVars, pipeVars
  <2>2. \A c \in Children : Sent(c) = {} /\ cconn[c] = None
    BY <2>1, NoMembers DEF Shapes, Sent
  <2>3. \A k \in R : ~Passed(k) \/ k \in lost
    BY <2>2 DEF Passed, Over
  <2>4. connfd = None \/ Passed(connfd) \/ connfd \in R
    BY DEF Passed, Over
  <2>5. R \subseteq {connfd} \ {None} /\ "done" \in Gone
    BY DEF Gone
  <2> HIDE DEF R
  <2> QED
    BY <1>0, <2>1, <2>3, <2>4, <2>5, PlacesParentEnds
<1>c. ASSUME NEW c \in Children, ChildEnds(c),
             UNCHANGED <<pc, connfd, backlog, arrived, served>>
      PROVE  Places'
  BY <1>0, <1>c, PlacesChildEnds
<1>d. ASSUME UNCHANGED <<pc, connfd, backlog, arrived, served, lost, down, cconn>>
      PROVE  Places'
  BY <1>0, <1>d, PlacesKept
<1>12. ASSUME NEW c \in Children, ChildRead(c) PROVE Places'
  <2>1. UNCHANGED <<pc, connfd, backlog, arrived, served>> /\ cpc[c] = "read"
    BY <1>12 DEF ChildRead, parentVars
  <2>2. CASE down[c] # <<>>
    <3>1. /\ cconn' = [cconn EXCEPT ![c] = Head(down[c])]
          /\ down' = [down EXCEPT ![c] = Tail(@)]
          /\ UNCHANGED lost
      BY <1>12, <2>2 DEF ChildRead
    <3> QED
      BY <1>0, <2>1, <2>2, <3>1, PlacesRead
  <2>3. CASE down[c] = <<>>
    BY <1>c, <1>12, <2>1, <2>3 DEF ChildRead
  <2> QED
    BY <2>2, <2>3
<1>13. ASSUME NEW c \in Children, ServeReturn(c) PROVE Places'
  <2>1. /\ cpc[c] = "serve" /\ served' = served \cup {cconn[c]}
        /\ cconn' = [cconn EXCEPT ![c] = None]
        /\ UNCHANGED <<pc, arrived, down, lost, backlog, connfd>>
    BY <1>13 DEF ServeReturn, parentVars, pipeVars
  <2> QED
    BY <1>0, <2>1, PlacesServed
<1>14. ASSUME NEW c \in Children, ServeFails(c) PROVE Places'
  BY <1>c, <1>d, <1>14 DEF ServeFails, parentVars
<1>15. ASSUME NEW c \in Children, Notify(c) PROVE Places'
  BY <1>c, <1>d, <1>15 DEF Notify, parentVars
<1>16. ASSUME NEW c \in Children, Exit(c) PROVE Places'
  BY <1>c, <1>16 DEF Exit, parentVars
<1>17. CASE UNCHANGED vars
  BY <1>d, <1>17 DEF vars, parentVars, childVars, pipeVars, connVars
<1>18. Next \/ UNCHANGED vars
  OBVIOUS
<1> QED
  BY ONLY Zenon, <1>1, <1>2, <1>3, <1>4, <1>5, <1>6, <1>7, <1>8, <1>9,
     <1>10, <1>11, <1>12, <1>13, <1>14, <1>15, <1>16, <1>17, <1>18
  DEF Next, ParentStep, Handover, ChildStep

(* The places give the account of the connections. *)
LEMMA PlacesAccount == TypeOK /\ Places => ConnAccounting
<1> SUFFICES ASSUME TypeOK, Places PROVE ConnAccounting
  OBVIOUS
<1>1. \A k : k \in InFlight <=> \E c \in Children : k \in Sent(c)
  BY DEF InFlight, Sent
<1>2. \A k : k \in Held <=> k # None /\ \E c \in Children : cconn[c] = k
  BY DEF Held
<1>3. \A k \in Conns : k \in Settled <=> Passed(k)
  BY <1>1, <1>2, PlaceTypes DEF Settled, Passed, Over
<1>4. Settled \subseteq Conns
  BY <1>1, <1>2, PlaceTypes DEF Settled
<1>5. 1 .. arrived = {k \in Conns : k <= arrived}
  BY ServerAssumption DEF TypeOK, Conns
<1>6. \A k \in Conns : k \in InHand <=> k = connfd /\ ~Passed(k)
  BY <1>3, PlaceTypes DEF InHand
<1>7. InHand \subseteq Conns
  BY PlaceTypes DEF InHand
<1>8. Waiting \cup InHand \cup Settled = 1 .. arrived
  BY <1>3, <1>4, <1>5, <1>6, <1>7, PlaceTypes DEF Places
<1>9. Waiting \cap (InHand \cup Settled) = {}
  BY <1>3, <1>6, PlaceTypes DEF Places
<1>10. InFlight \cap (Held \cup served \cup lost) = {}
  BY <1>1, <1>2 DEF Places, Over
<1>11. Held \cap (served \cup lost) = {}
  BY <1>2 DEF Places, Over
<1>12. \A c, d \in Children : c # d =>
       /\ Sent(c) \cap Sent(d) = {}
       /\ cconn[c] = cconn[d] => cconn[c] = None
  BY DEF Places
<1>13. served \cap lost = {}
  BY DEF Places
<1> QED
  BY <1>8, <1>9, <1>10, <1>11, <1>12, <1>13 DEF ConnAccounting, Waiting, Sent

(* No connection is forgotten, passed to two children or served twice, for   *)
(* any number of children and connections, whatever process ends when.       *)
THEOREM ConnsAccounted == Spec => []ConnAccounting
<1>1. Init => Places /\ Shapes
  <2> SUFFICES ASSUME Init PROVE Places /\ Shapes
    OBVIOUS
  <2>1. Waiting = {} /\ Over = {} /\ connfd = None /\ pc = "make" /\ arrived = 0 /\ served = {}
    BY NoMembers DEF Init, Waiting, Over
  <2>2. \A c \in Children : Sent(c) = {} /\ cconn[c] = None /\ down[c] = <<>> /\ cpc[c] = "none"
    BY NoMembers DEF Init, Sent
  <2>3. \A k \in Conns : k # None /\ ~(k <= 0) /\ ~Passed(k)
    BY <2>1, <2>2, ServerAssumption DEF Conns, None, Passed
  <2>4. Places
    BY <2>1, <2>2, <2>3 DEF Places
  <2>5. Shapes
    BY <2>2, NoMembers DEF Init, Shapes
  <2> QED
    BY <2>4, <2>5
<1>2. IndInv /\ Places /\ Shapes /\ [Next]_vars => Places' /\ Shapes'
  BY PlaceStep, ShapeStep
<1>3. IndInv /\ Places => ConnAccounting
  BY PlacesAccount DEF IndInv
<1> QED
  BY <1>1, <1>2, <1>3, ServerInvariance, PTL DEF Spec
===============================================================================
