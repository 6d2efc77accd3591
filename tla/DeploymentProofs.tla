-------------------------- MODULE DeploymentProofs --------------------------
(* For any users, nodes, workloads, widths and bounds: a test that ended with  *)
(* all it waited for leaves nothing behind, the sizes survive the validators, *)
(* and the session is a job service.                                         *)
EXTENDS DeploymentProperties, TLAPS

\* Of the inputs a user sent, how many are read, on their way or in the session.
Accounted(u) ==
  received[u] + to_user[u] + to_server[u] + (IF session = u THEN pending ELSE 0)

\* No more inputs are accounted for than were sent.
Account == \A u \in User : Accounted(u) <= sent[u]

\* The sending loop is over exactly when it says so, and can send until then; the
\* receiving loop is over only when it has read as many results.
LoopsAgree ==
  \A u \in User :
    /\ sending_done[u] <=> tx[u] = "done"
    /\ tx[u] \in {"timer", "sending"} => sent[u] < MaxSent
    /\ rx[u] = "done" => sending_done[u] /\ received[u] >= sent[u]

\* Nothing is pending before the first session.
NoSessionYet == user_server = "accepting" <=> session = NoUser

NothingBefore == session = NoUser => pending = 0

Inv == TypeOK /\ Account /\ LoopsAgree /\ NoSessionYet /\ NothingBefore

(* The invariant holds at first. *)
LEMMA InitInv == Init => Inv
<1> SUFFICES ASSUME Init PROVE Inv
  OBVIOUS
<1> USE DEF Init
<1>1. TypeOK
  <2>1. 0 \in 0 .. MaxSent /\ 0 \in 0 .. Capacity
    BY DeploymentAssumption
  <2> QED
    BY <2>1 DEF TypeOK
<1>2. Account
  BY DeploymentAssumption DEF Account, Accounted
<1>3. LoopsAgree
  BY DeploymentAssumption DEF LoopsAgree
<1> QED
  BY <1>1, <1>2, <1>3 DEF Inv, NoSessionYet, NothingBefore

\* A user begins with one of its workloads.
LEMMA UserConnectsInv == ASSUME Inv, NEW u \in User, UserConnects(u) PROVE Inv'
<1> USE DEF Inv
<1>1. PICK w \in Workloads[u] :
        /\ work' = [work EXCEPT ![u] = w]
        /\ \E sends \in BOOLEAN :
             /\ user_pc' = [user_pc EXCEPT ![u] = IF sends THEN "response" ELSE "ended"]
             /\ socket' = [socket EXCEPT ![u] = sends]
  BY DEF UserConnects, IsValidMessage, HeaderIsValid, HasValidPayloadSize
<1>2. /\ user_conn' = [user_conn EXCEPT ![u] = "backlog"]
      /\ UNCHANGED <<server, nodes, loops, wires>>
  BY DEF UserConnects
<1>3. TypeOK'
  BY <1>1, <1>2, DeploymentAssumption DEF TypeOK, server, nodes, users, loops, wires
<1> QED
  BY <1>1, <1>2, <1>3 DEF Account, Accounted, LoopsAgree, NoSessionYet, NothingBefore, server, nodes, users, loops, wires

\* The input that is sent is accounted for on its way to the server.
LEMMA SendCompletesInv == ASSUME Inv, NEW u \in User, SendCompletes(u) PROVE Inv'
<1> USE DEF Inv
<1>1. PICK elapsed \in IF sent[u] + 1 = MaxSent THEN {TRUE} ELSE BOOLEAN :
        /\ sending_done' = [sending_done EXCEPT ![u] = elapsed]
        /\ tx' = [tx EXCEPT ![u] = IF elapsed THEN "done" ELSE "timer"]
  BY DEF SendCompletes
<1>2. /\ tx[u] = "sending" /\ to_server[u] < Capacity
      /\ to_server' = [to_server EXCEPT ![u] = @ + 1]
      /\ sent' = [sent EXCEPT ![u] = @ + 1]
      /\ UNCHANGED <<server, nodes, user_pc, user_conn, socket, work, rx, received,
                     to_user>>
  BY DEF SendCompletes
<1>3. TypeOK'
  <2>1. sent[u] + 1 \in 0 .. MaxSent /\ to_server[u] + 1 \in 0 .. Capacity
    BY <1>2, DeploymentAssumption DEF TypeOK, LoopsAgree
  <2>2. /\ sent' \in [User -> 0 .. MaxSent] /\ to_server' \in [User -> 0 .. Capacity]
        /\ sending_done' \in [User -> BOOLEAN]
        /\ tx' \in [User -> {"timer", "sending", "done", "failed"}]
    BY <1>1, <1>2, <2>1 DEF TypeOK
  <2> QED
    BY <1>2, <2>2 DEF TypeOK, server, nodes
<1>4. Account'
  BY <1>2, DeploymentAssumption DEF TypeOK, Account, Accounted, server
<1>5. LoopsAgree'
  <2>1. /\ sending_done'[u] = elapsed /\ tx'[u] = IF elapsed THEN "done" ELSE "timer"
        /\ rx[u] # "done"
    BY <1>1, <1>2 DEF TypeOK, LoopsAgree
  <2>2. sent'[u] = sent[u] + 1 /\ sent[u] < MaxSent /\ sent[u] \in Nat
    BY <1>2, DeploymentAssumption DEF TypeOK, LoopsAgree
  <2>3. elapsed \in BOOLEAN /\ (~elapsed => sent'[u] < MaxSent)
    <3>1. CASE sent[u] + 1 = MaxSent
      BY <1>1, <3>1
    <3>2. CASE sent[u] + 1 # MaxSent
      <4>1. sent'[u] < MaxSent
        BY <2>2, <3>2, DeploymentAssumption
      <4> QED
        BY <1>1, <3>2, <4>1
    <3> QED
      BY <3>1, <3>2
  <2>4. ASSUME NEW v \in User, v # u
        PROVE  /\ sending_done'[v] = sending_done[v] /\ tx'[v] = tx[v]
               /\ sent'[v] = sent[v]
    BY <1>1, <1>2, <2>4 DEF TypeOK
  <2> QED
    BY <1>2, <2>1, <2>3, <2>4, <2>2 DEF LoopsAgree
<1> QED
  BY <1>2, <1>3, <1>4, <1>5 DEF NoSessionYet, NothingBefore, server

\* A result that is read was on its way to the user.
LEMMA ReceiveResultInv == ASSUME Inv, NEW u \in User, ReceiveResult(u) PROVE Inv'
<1> USE DEF Inv
<1>1. /\ to_user[u] > 0 /\ rx[u] = "receiving"
      /\ to_user' = [to_user EXCEPT ![u] = @ - 1]
      /\ received' = [received EXCEPT ![u] = @ + 1]
      /\ rx' = [rx EXCEPT ![u] =
                  IF ReceivingEnds(u, received[u] + 1) THEN "done" ELSE @]
      /\ UNCHANGED <<server, nodes, user_pc, user_conn, socket, work, tx,
                     sending_done, sent, to_server>>
  BY DEF ReceiveResult
<1>2. Account'
  BY <1>1 DEF TypeOK, Account, Accounted, server
<1>3. received[u] + 1 <= MaxSent
  BY <1>1, DeploymentAssumption DEF TypeOK, Account, Accounted
<1>4. TypeOK'
  BY <1>1, <1>3, DeploymentAssumption DEF TypeOK, server, nodes
<1>5. LoopsAgree'
  BY <1>1 DEF TypeOK, LoopsAgree, ReceivingEnds, server
<1> QED
  BY <1>1, <1>2, <1>4, <1>5 DEF NoSessionYet, NothingBefore, server

\* Loops that end on a destroyed User change no count.
LEMMA LoopsEndInv == ASSUME Inv, LoopsEnd PROVE Inv'
<1> USE DEF Inv
<1>1. /\ running' \in BOOLEAN /\ loops_left' = FALSE
      /\ UNCHANGED <<node_server, user_server, session, stage, pending, node_pc,
                     user_pc, socket, work, loops, wires>>
  BY DEF LoopsEnd, TypeOK
<1>2. /\ node_conn' \in [Node -> {"none", "backlog", "listed", "configuring",
                                 "refused", "ready", "dropped", "closed"}]
      /\ user_conn' \in [User -> {"none", "backlog", "session", "closed"}]
  <2>1. CASE ConnectionsEnd
    BY <2>1 DEF ConnectionsEnd, TypeOK
  <2>2. CASE /\ node_conn' = [n \in Node |-> IF node_conn[n] \in {"ready", "dropped"}
                                            THEN "closed" ELSE node_conn[n]]
             /\ UNCHANGED <<running, user_conn>>
    BY <2>2 DEF TypeOK
  <2> QED
    BY <2>1, <2>2 DEF LoopsEnd
<1>3. TypeOK'
  BY <1>1, <1>2 DEF TypeOK, loops, wires
<1> QED
  BY <1>1, <1>3 DEF Account, Accounted, LoopsAgree, NoSessionYet, NothingBefore, loops,
                    wires

(* Every step keeps the invariant. *)
LEMMA NextInv == ASSUME Inv, [Next]_vars PROVE Inv'
<1> USE DeploymentAssumption DEF Inv, TypeOK, Account, Accounted, LoopsAgree, NoSessionYet, NothingBefore, server, nodes, users, loops, wires
<1>1. ASSUME NEW u \in User, UserDies(u) PROVE Inv'
  BY <1>1 DEF UserDies
<1>2. ASSUME NEW u \in User, ResponseFails(u) PROVE Inv'
  BY <1>2 DEF ResponseFails
<1>3. ASSUME NEW u \in User, TimerExpires(u) PROVE Inv'
  BY <1>3 DEF TimerExpires
<1>4. ASSUME NEW u \in User, SendFails(u) PROVE Inv'
  BY <1>4 DEF SendFails
<1>5. ASSUME NEW u \in User, ReceiveFails(u) PROVE Inv'
  BY <1>5 DEF ReceiveFails
<1>6. ASSUME NEW u \in User, UserEnds(u) PROVE Inv'
  BY <1>6 DEF UserEnds
<1>7. ASSUME NEW u \in User, AcceptUser(u) PROVE Inv'
  BY <1>7 DEF AcceptUser
<1>8. ASSUME NEW n \in Node, NodeConnects(n) PROVE Inv'
  BY <1>8 DEF NodeConnects
<1>9. ASSUME NEW n \in Node, NodeDies(n) PROVE Inv'
  BY <1>9 DEF NodeDies
<1>10. ASSUME NEW n \in Node, NodeEnds(n) PROVE Inv'
  BY <1>10 DEF NodeEnds
<1>11. ASSUME NEW n \in Node, AcceptNode(n) PROVE Inv'
  BY <1>11 DEF AcceptNode
<1>12. ASSUME NEW n \in Node, ConfiguresNode(n) PROVE Inv'
  BY <1>12 DEF ConfiguresNode
<1>13. ASSUME NEW n \in Node, DropsNode(n) PROVE Inv'
  BY <1>13 DEF DropsNode
<1>14. CASE AcceptorCancelled
  BY <1>14 DEF AcceptorCancelled
<1>15. CASE ProcessEnds
  BY <1>15 DEF ProcessEnds, ConnectionsEnd
<1>16. CASE FirstConfig
  BY <1>16 DEF FirstConfig, Serving
<1>17. CASE FirstConfigFails
  BY <1>17 DEF FirstConfigFails, Returns, Serving
<1>18. CASE ConfigAnswered
  BY <1>18 DEF ConfigAnswered, Serving
<1>19. CASE ConfigResponseFails
  BY <1>19 DEF ConfigResponseFails, Returns, Serving
<1>20. CASE TakesInput
  BY <1>20 DEF TakesInput, Serving
<1>21. CASE RefusesInput
  BY <1>21 DEF RefusesInput, Returns, Serving
<1>22. CASE UserGone
  BY <1>22 DEF UserGone, Returns, Serving
<1>23. CASE Answers
  BY <1>23 DEF Answers
<1>24. CASE LosesInput
  BY <1>24 DEF LosesInput
<1>25. CASE UNCHANGED vars
  BY <1>25 DEF vars
<1> QED
  BY <1>1, <1>2, <1>3, <1>4, <1>5, <1>6, <1>7, <1>8, <1>9, <1>10, <1>11,
     <1>12, <1>13, <1>14, <1>15, <1>16, <1>17, <1>18, <1>19, <1>20, <1>21,
     <1>22, <1>23, <1>24, <1>25, UserConnectsInv, SendCompletesInv,
     ReceiveResultInv, LoopsEndInv DEF Next, UserStep, Acceptors,
     SessionStep, ServerEnds

(* So it holds for ever. *)
LEMMA DeploymentInv == Spec => []Inv
  BY InitInv, NextInv, PTL DEF Spec

\* Every count of the three programs keeps its bound: in particular no user reads
\* more results than it sent inputs (test_user.cpp messages_sent,
\* messages_received), and the session holds no more than were sent.
THEOREM DeploymentTypeOK == Spec => []TypeOK
<1>1. Inv => TypeOK
  BY DEF Inv
<1> QED
  BY <1>1, DeploymentInv, PTL

\* A test that ended with all it waited for leaves nothing behind: every input it
\* sent was taken and answered, and every result was read (test_user.cpp
\* sending_loop, receiving_loop), whatever died in the meantime.
THEOREM DeploymentNothingOutstanding == Spec => []NothingOutstanding
<1>1. ASSUME Inv, NEW u \in User, rx[u] = "done"
      PROVE  /\ tx[u] = "done" /\ to_server[u] = 0 /\ to_user[u] = 0
             /\ session = u /\ user_server = "serving" => pending = 0
  <2>1. tx[u] = "done" /\ received[u] >= sent[u]
    BY <1>1 DEF Inv, LoopsAgree
  <2>2. /\ received[u] \in Nat /\ sent[u] \in Nat /\ to_server[u] \in Nat
        /\ to_user[u] \in Nat /\ pending \in Nat
    BY <1>1, DeploymentAssumption DEF Inv, TypeOK
  <2>3. Accounted(u) <= sent[u]
    BY <1>1 DEF Inv, Account
  <2> QED
    BY <2>1, <2>2, <2>3 DEF Accounted
<1>2. Inv => NothingOutstanding
  BY <1>1 DEF NothingOutstanding
<1> QED
  BY <1>2, DeploymentInv, PTL

------------------------------------------------------------------------------
(* Sizes.                                                                    *)

\* What was truncated is less than the modulus; what is less is not truncated.
LEMMA Uint32Range == ASSUME NEW x \in Int PROVE Uint32(x) \in 0 .. Modulus - 1
BY ModulusAssumption DEF Uint32

LEMMA Uint32Small ==
  ASSUME NEW x \in Int, 0 <= x, x < Modulus
  PROVE  Uint32(x) = x
BY ModulusAssumption DEF Uint32

\* A valid message is as long as its header says, and arrives as it was sent
\* (has_valid_payload_size compares a sum of 32 bits with one of 64).
LEMMA ValidIsWhole ==
  ASSUME NEW type, NEW payload \in Nat, IsValidMessage(Message(type, payload))
  PROVE  /\ Message(type, payload).payload_size = payload
         /\ payload > 0 /\ payload + HeaderSize < Modulus
<1> DEFINE p == Uint32(payload)
<1>1. p \in 0 .. Modulus - 1 /\ p > 0
  BY Uint32Range DEF IsValidMessage, HeaderIsValid, Message
<1>2. AllocInfoSize + HeaderSize + payload = AllocInfoSize + Uint32(HeaderSize + p)
  BY DEF IsValidMessage, HasValidPayloadSize, Message, MessageSize
<1>3. Uint32(HeaderSize + p) \in 0 .. Modulus - 1
  BY <1>1, Uint32Range, ModulusAssumption DEF HeaderSize
<1>4. payload + HeaderSize < Modulus
  BY <1>2, <1>3, ModulusAssumption DEF AllocInfoSize, HeaderSize
<1>5. p = payload
  BY <1>4, Uint32Small, ModulusAssumption DEF HeaderSize
<1> QED
  BY <1>1, <1>4, <1>5 DEF Message

\* The bitstream of a valid configuration has the size the user gave.
LEMMA ConfigSurvives ==
  ASSUME NEW blocks \in Nat, NEW in \in Nat, NEW out \in Nat, NEW rbf \in Nat,
         IsValidMessage(NewConfig(blocks, in, out, rbf))
  PROVE  RbfSize(Received(NewConfig(blocks, in, out, rbf))) = rbf
<1> DEFINE payload == ConfigSize + blocks * BlockInfoSize + rbf
           m == NewConfig(blocks, in, out, rbf)
<1>1. payload \in Nat /\ blocks * BlockInfoSize \in Nat
  BY DEF ConfigSize, BlockInfoSize
<1>2. IsValidMessage(Message("CONFIG", payload))
  BY DEF NewConfig, IsValidMessage, HeaderIsValid, HasValidPayloadSize, MessageSize, Message
<1>3. m.payload_size = payload /\ payload + HeaderSize < Modulus
  BY <1>1, <1>2, ValidIsWhole DEF NewConfig
<1>4. Received(m).payload_size = payload /\ Received(m).num_blocks = blocks
  BY <1>3 DEF Received, NewConfig
<1> DEFINE infos == blocks * BlockInfoSize
<1> HIDE DEF infos
<1>5. infos \in Nat /\ infos + rbf < Modulus /\ payload = ConfigSize + infos + rbf
  BY <1>1, <1>3, ModulusAssumption DEF infos, ConfigSize, HeaderSize
<1>6. RbfOffset(Received(m)) = infos
  <2>1. Uint32(infos) = infos
    BY <1>5, Uint32Small, ModulusAssumption
  <2> QED
    BY <2>1, <1>4 DEF RbfOffset, infos
<1>7. payload - ConfigSize - infos = rbf /\ rbf < Modulus
  BY <1>5, ModulusAssumption DEF ConfigSize
<1>8. Uint32(payload - ConfigSize - infos) = rbf
  BY <1>7, Uint32Small
<1> QED
  BY <1>4, <1>6, <1>8 DEF RbfSize

\* Outputs that are no larger than the inputs fit where the inputs did.
LEMMA ResultSurvives ==
  ASSUME NEW in \in Nat \ {0}, NEW out \in Nat, NEW count \in Nat, out <= in,
         IsValidData(Received(NewData(in, count)), in),
         NewData(in, count).payload_size >= IdSize
  PROVE  LET blocks == BlockCount(NewData(in, count), in)
         IN  /\ blocks \in Nat
             /\ NewData(out, blocks).payload_size = IdSize + blocks * out
<1> DEFINE m == NewData(in, count)
           p == m.payload_size
           blocks == BlockCount(m, in)
<1>1. p \in 0 .. Modulus - 1
  <2>1. IdSize + in * count \in Int
    BY DEF IdSize
  <2>2. Uint32(IdSize + in * count) \in Int
    BY <2>1, Uint32Range
  <2> QED
    BY <2>2, Uint32Range DEF NewData, Message
<1>2. Received(m).payload_size = p
      /\ Received(m).alloc_size = AllocInfoSize + HeaderSize + p
  BY DEF Received, NewData, Message
<1>3. p >= IdSize /\ DataSize(m) = p - IdSize /\ DataSize(m) \in Nat
  <2>1. p >= IdSize
    OBVIOUS
  <2>2. p - IdSize \in Nat /\ p - IdSize < Modulus
    BY <1>1, <2>1, ModulusAssumption DEF IdSize
  <2> QED
    BY <2>1, <2>2, Uint32Small DEF DataSize
<1>4. DataSize(m) % in = 0
  BY <1>2 DEF IsValidData, DataSize
<1> HIDE DEF m, p
<1>5. blocks \in Nat /\ in * blocks = DataSize(m)
  BY <1>3, <1>4 DEF BlockCount
<1> HIDE DEF blocks
<1>6. out * blocks <= in * blocks /\ out * blocks \in Nat /\ blocks * out = out * blocks
  BY <1>5
<1>7. IdSize + out * blocks < Modulus /\ IdSize + out * blocks \in Nat
  BY <1>1, <1>3, <1>5, <1>6, ModulusAssumption DEF IdSize
<1>8. NewData(out, blocks).payload_size = IdSize + out * blocks
  BY <1>7, Uint32Small DEF NewData, Message
<1> QED
  BY <1>5, <1>6, <1>8 DEF blocks, m

------------------------------------------------------------------------------
(* What the session knows of its user.                                       *)

\* A user's workload is chosen once, before it connects.  Past its first stage the
\* session has a valid configuration; a node that is ready has accepted it.
FitInv ==
  /\ \A u \in User : user_pc[u] = "off" => user_conn[u] = "none"
  /\ \A u \in User : user_pc[u] # "off" => work[u] \in Workloads[u]
  /\ session # NoUser => user_pc[session] # "off"
  /\ session = NoUser => stage = "first" /\ \A n \in Node : node_conn[n] # "ready"
  /\ session # NoUser /\ stage # "first" => IsValidMessage(ConfigOf(session))
  /\ \A n \in Node : node_conn[n] = "ready" => AcceptsConfig(Received(ConfigOf(session)))

LEMMA FitInit == Init => FitInv
BY DEF Init, FitInv

\* Every step keeps it.
LEMMA FitStep == ASSUME Inv, FitInv, [Next]_vars PROVE FitInv'
<1> USE DEF FitInv, Inv, TypeOK, NoSessionYet, ConfigOf, Serving, server, nodes, users,
            loops, wires
<1>0. NoUser \notin User
  BY DeploymentAssumption
<1>1. ASSUME NEW u \in User, UserConnects(u) PROVE FitInv'
  <2>1. PICK w \in Workloads[u] :
          /\ work' = [work EXCEPT ![u] = w]
          /\ \E sends \in BOOLEAN :
               user_pc' = [user_pc EXCEPT ![u] = IF sends THEN "response" ELSE "ended"]
    BY <1>1 DEF UserConnects, IsValidMessage, HeaderIsValid, HasValidPayloadSize
  <2>2. /\ user_pc[u] = "off" /\ user_conn' = [user_conn EXCEPT ![u] = "backlog"]
        /\ UNCHANGED <<server, nodes, loops, wires>>
    BY <1>1 DEF UserConnects
  <2>3. /\ work'[u] = w /\ user_pc'[u] # "off" /\ session # u
        /\ \A v \in User \ {u} : work'[v] = work[v] /\ user_pc'[v] = user_pc[v]
    BY <1>0, <2>1, <2>2
  <2>4. session # NoUser => ConfigOf(session)' = ConfigOf(session)
    BY <2>2, <2>3
  <2> QED
    BY <2>1, <2>2, <2>3, <2>4
<1>2. ASSUME NEW u \in User, UserDies(u) PROVE FitInv'
  BY <1>2 DEF UserDies
<1>3. ASSUME NEW u \in User, ResponseFails(u) PROVE FitInv'
  BY <1>3 DEF ResponseFails
<1>4. ASSUME NEW u \in User, TimerExpires(u) PROVE FitInv'
  BY <1>4 DEF TimerExpires
<1>5. ASSUME NEW u \in User, SendCompletes(u) PROVE FitInv'
  BY <1>5 DEF SendCompletes
<1>6. ASSUME NEW u \in User, SendFails(u) PROVE FitInv'
  BY <1>6 DEF SendFails
<1>7. ASSUME NEW u \in User, ReceiveResult(u) PROVE FitInv'
  BY <1>7 DEF ReceiveResult
<1>8. ASSUME NEW u \in User, ReceiveFails(u) PROVE FitInv'
  BY <1>8 DEF ReceiveFails
<1>9. ASSUME NEW u \in User, UserEnds(u) PROVE FitInv'
  BY <1>9 DEF UserEnds
<1>10. ASSUME NEW u \in User, AcceptUser(u) PROVE FitInv'
  BY <1>10, <1>0 DEF AcceptUser
<1>11. ASSUME NEW n \in Node, NodeConnects(n) PROVE FitInv'
  BY <1>11 DEF NodeConnects
<1>12. ASSUME NEW n \in Node, NodeDies(n) PROVE FitInv'
  BY <1>12 DEF NodeDies
<1>13. ASSUME NEW n \in Node, NodeEnds(n) PROVE FitInv'
  BY <1>13 DEF NodeEnds
<1>14. ASSUME NEW n \in Node, AcceptNode(n) PROVE FitInv'
  BY <1>14 DEF AcceptNode
<1>15. ASSUME NEW n \in Node, ConfiguresNode(n) PROVE FitInv'
  BY <1>15 DEF ConfiguresNode
<1>16. ASSUME NEW n \in Node, DropsNode(n) PROVE FitInv'
  BY <1>16 DEF DropsNode
<1>17. CASE AcceptorCancelled
  BY <1>17 DEF AcceptorCancelled
<1>18. CASE ProcessEnds
  BY <1>18 DEF ProcessEnds, ConnectionsEnd
<1>19. CASE LoopsEnd
  <2>1. /\ \A u \in User : user_conn'[u] = "none" <=> user_conn[u] = "none"
        /\ \A n \in Node : node_conn'[n] = "ready" => node_conn[n] = "ready"
    <3>1. CASE ConnectionsEnd
      BY <3>1 DEF ConnectionsEnd
    <3>2. CASE /\ node_conn' = [n \in Node |->
                    IF node_conn[n] \in {"ready", "dropped"} THEN "closed" ELSE node_conn[n]]
               /\ user_conn' = user_conn
      BY <3>2
    <3> QED
      BY <1>19, <3>1, <3>2 DEF LoopsEnd
  <2>2. UNCHANGED <<user_server, session, stage, pending, user_pc, work>>
    BY <1>19 DEF LoopsEnd
  <2> QED
    BY <2>1, <2>2
<1>20. CASE FirstConfig
  BY <1>20 DEF FirstConfig
<1>21. CASE FirstConfigFails
  BY <1>21 DEF FirstConfigFails, Returns
<1>22. CASE ConfigAnswered
  BY <1>22 DEF ConfigAnswered
<1>23. CASE ConfigResponseFails
  BY <1>23 DEF ConfigResponseFails, Returns
<1>24. CASE TakesInput
  BY <1>24 DEF TakesInput
<1>25. CASE RefusesInput
  BY <1>25 DEF RefusesInput, Returns
<1>26. CASE UserGone
  BY <1>26 DEF UserGone, Returns
<1>27. CASE Answers
  BY <1>27 DEF Answers
<1>28. CASE LosesInput
  BY <1>28 DEF LosesInput
<1>29. CASE UNCHANGED vars
  BY <1>29 DEF vars
<1> QED
  BY <1>1, <1>2, <1>3, <1>4, <1>5, <1>6, <1>7, <1>8, <1>9, <1>10, <1>11, <1>12,
     <1>13, <1>14, <1>15, <1>16, <1>17, <1>18, <1>19, <1>20, <1>21, <1>22,
     <1>23, <1>24, <1>25, <1>26, <1>27, <1>28, <1>29
     DEF Next, UserStep, Acceptors, SessionStep, ServerEnds

LEMMA DeploymentFitInv == Spec => [](Inv /\ FitInv)
<1>1. Inv /\ FitInv /\ [Next]_vars => FitInv'
  BY FitStep
<1> QED
  BY <1>1, FitInit, DeploymentInv, PTL DEF Spec

\* The nodes get the bitstream the user put in, and a result has one output for
\* each input, for any width of the sizes and any workloads (Message.hpp
\* has_valid_payload_size, is_valid_config, new_config, new_data; test_node.cpp
\* config_received).
THEOREM DeploymentSizesSurvive == Spec => []SizesSurvive
<1>1. ASSUME Inv, FitInv, session # NoUser, stage # "first"
      PROVE  RbfSize(Received(ConfigOf(session))) = work[session].rbf
  <2>1. session \in User /\ work[session] \in Workloads[session]
    BY <1>1 DEF Inv, TypeOK, FitInv
  <2>2. /\ work[session].blocks \in Nat /\ work[session].in \in Nat
        /\ work[session].out \in Nat /\ work[session].rbf \in Nat
    BY <2>1, DeploymentAssumption
  <2> QED
    BY <1>1, <2>2, ConfigSurvives DEF FitInv, ConfigOf
<1>2. ASSUME Inv, FitInv, session # NoUser, Processing # {}, InputIsValid,
             InputOf(session).payload_size >= IdSize
      PROVE  ResultOf(session).payload_size
               = IdSize + BlockCount(InputOf(session), work[session].in) * work[session].out
  <2>1. session \in User /\ work[session] \in Workloads[session]
    BY <1>2 DEF Inv, TypeOK, FitInv
  <2> DEFINE in == work[session].in
             out == work[session].out
             count == work[session].count
  <2>2. in \in Nat \ {0} /\ out \in Nat /\ count \in Nat
    BY <2>1, DeploymentAssumption
  <2>3. AcceptsConfig(Received(ConfigOf(session)))
    BY <1>2 DEF FitInv, Processing
  <2>4. /\ Received(ConfigOf(session)).input_size = in
        /\ Received(ConfigOf(session)).output_size = out
    BY DEF Received, ConfigOf, NewConfig
  <2>5. out <= in
    BY <2>2, <2>3, <2>4 DEF AcceptsConfig
  <2>6. IsValidData(Received(NewData(in, count)), in)
        /\ NewData(in, count).payload_size >= IdSize
    BY <1>2 DEF InputIsValid, InputOf
  <2>7. ResultOf(session) = NewData(out, BlockCount(Received(NewData(in, count)), in))
    BY <2>4 DEF ResultOf, OutputFor, InputOf
  <2>8. BlockCount(Received(NewData(in, count)), in) = BlockCount(NewData(in, count), in)
    BY DEF BlockCount, DataSize, Received, NewData, Message
  <2> HIDE DEF in, out, count
  <2>9. ResultOf(session).payload_size = IdSize + BlockCount(NewData(in, count), in) * out
    BY <2>2, <2>5, <2>6, <2>7, <2>8, ResultSurvives
  <2> QED
    BY <2>9 DEF in, out, count, InputOf
<1>3. Inv /\ FitInv => SizesSurvive
  BY <1>1, <1>2 DEF SizesSurvive
<1> QED
  BY <1>3, DeploymentFitInv, PTL

------------------------------------------------------------------------------
(* The session is a job service.                                             *)

\* A user the server has not accepted has sent nothing; the one of the session was
\* accepted; and what the session accepted was valid, and came after the answer to
\* the configuration.
ServiceInv ==
  /\ \A u \in User : user_conn[u] \in {"none", "backlog"} =>
       /\ user_pc[u] # "testing"
       /\ sent[u] = 0 /\ to_server[u] = 0 /\ received[u] = 0 /\ to_user[u] = 0
  /\ session # NoUser => user_conn[session] \notin {"none", "backlog"}
  /\ pending > 0 => stage \in {"serving", "waiting"} /\ InputIsValid

LEMMA ServiceInit == Init => ServiceInv
BY DEF Init, ServiceInv

\* Every step keeps it.
LEMMA ServiceInvStep == ASSUME Inv, FitInv, ServiceInv, [Next]_vars PROVE ServiceInv'
<1> USE DEF ServiceInv, FitInv, Inv, TypeOK, NoSessionYet, NothingBefore, Serving, server,
            nodes, users, loops, wires
<1>0. NoUser \notin User
  BY DeploymentAssumption
<1>a. ASSUME session' = session, session # NoUser, work'[session] = work[session]
      PROVE  InputIsValid' = InputIsValid
  BY <1>a DEF InputIsValid, InputOf
<1>1. ASSUME NEW u \in User, UserConnects(u) PROVE ServiceInv'
  <2>1. PICK w \in Workloads[u] :
          /\ work' = [work EXCEPT ![u] = w]
          /\ \E sends \in BOOLEAN :
               user_pc' = [user_pc EXCEPT ![u] = IF sends THEN "response" ELSE "ended"]
    BY <1>1 DEF UserConnects, IsValidMessage, HeaderIsValid, HasValidPayloadSize
  <2>2. /\ user_pc[u] = "off" /\ user_conn' = [user_conn EXCEPT ![u] = "backlog"]
        /\ UNCHANGED <<server, nodes, loops, wires>>
    BY <1>1 DEF UserConnects
  <2>3. /\ user_pc'[u] # "testing" /\ user_conn[u] = "none" /\ session # u
        /\ \A v \in User \ {u} : work'[v] = work[v] /\ user_pc'[v] = user_pc[v]
    BY <1>0, <2>1, <2>2
  <2> QED
    BY <1>a, <2>2, <2>3
<1>2. ASSUME NEW u \in User, UserDies(u) PROVE ServiceInv'
  BY <1>2, <1>0, <1>a DEF UserDies
<1>3. ASSUME NEW u \in User, ResponseFails(u) PROVE ServiceInv'
  BY <1>3, <1>0, <1>a DEF ResponseFails
<1>4. ASSUME NEW u \in User, TimerExpires(u) PROVE ServiceInv'
  BY <1>4, <1>0, <1>a DEF TimerExpires
<1>5. ASSUME NEW u \in User, SendCompletes(u) PROVE ServiceInv'
  BY <1>5, <1>0, <1>a DEF SendCompletes
<1>6. ASSUME NEW u \in User, SendFails(u) PROVE ServiceInv'
  BY <1>6, <1>0, <1>a DEF SendFails
<1>7. ASSUME NEW u \in User, ReceiveResult(u) PROVE ServiceInv'
  BY <1>7, <1>0, <1>a DEF ReceiveResult
<1>8. ASSUME NEW u \in User, ReceiveFails(u) PROVE ServiceInv'
  BY <1>8, <1>0, <1>a DEF ReceiveFails
<1>9. ASSUME NEW u \in User, UserEnds(u) PROVE ServiceInv'
  BY <1>9, <1>0, <1>a DEF UserEnds
<1>10. ASSUME NEW u \in User, AcceptUser(u) PROVE ServiceInv'
  BY <1>10, <1>0, <1>a DEF AcceptUser
<1>11. ASSUME NEW n \in Node, NodeConnects(n) PROVE ServiceInv'
  BY <1>11, <1>0, <1>a DEF NodeConnects
<1>12. ASSUME NEW n \in Node, NodeDies(n) PROVE ServiceInv'
  BY <1>12, <1>0, <1>a DEF NodeDies
<1>13. ASSUME NEW n \in Node, NodeEnds(n) PROVE ServiceInv'
  BY <1>13, <1>0, <1>a DEF NodeEnds
<1>14. ASSUME NEW n \in Node, AcceptNode(n) PROVE ServiceInv'
  BY <1>14, <1>0, <1>a DEF AcceptNode
<1>15. ASSUME NEW n \in Node, ConfiguresNode(n) PROVE ServiceInv'
  BY <1>15, <1>0, <1>a DEF ConfiguresNode
<1>16. ASSUME NEW n \in Node, DropsNode(n) PROVE ServiceInv'
  BY <1>16, <1>0, <1>a DEF DropsNode
<1>17. CASE AcceptorCancelled
  BY <1>17, <1>0, <1>a DEF AcceptorCancelled
<1>18. CASE ProcessEnds
  BY <1>18, <1>0, <1>a DEF ProcessEnds, ConnectionsEnd
<1>19. CASE LoopsEnd
  <2>1. \A u \in User : user_conn'[u] \in {"none", "backlog"} =>
                          user_conn'[u] = user_conn[u]
    BY <1>19 DEF LoopsEnd, ConnectionsEnd
  <2>2. UNCHANGED <<user_server, session, stage, pending, user_pc, work, loops, wires>>
    BY <1>19 DEF LoopsEnd
  <2> QED
    BY <1>0, <1>a, <2>1, <2>2
<1>20. CASE FirstConfig
  BY <1>20, <1>0, <1>a DEF FirstConfig
<1>21. CASE FirstConfigFails
  BY <1>21, <1>0, <1>a DEF FirstConfigFails, Returns
<1>22. CASE ConfigAnswered
  BY <1>22, <1>0, <1>a DEF ConfigAnswered
<1>23. CASE ConfigResponseFails
  BY <1>23, <1>0, <1>a DEF ConfigResponseFails, Returns
<1>24. CASE TakesInput
  BY <1>24, <1>0, <1>a DEF TakesInput
<1>25. CASE RefusesInput
  BY <1>25, <1>0, <1>a DEF RefusesInput, Returns
<1>26. CASE UserGone
  BY <1>26, <1>0, <1>a DEF UserGone, Returns
<1>27. CASE Answers
  BY <1>27, <1>0, <1>a DEF Answers
<1>28. CASE LosesInput
  BY <1>28, <1>0, <1>a DEF LosesInput
<1>29. CASE UNCHANGED vars
  BY <1>29, <1>a DEF vars
<1> QED
  BY <1>1, <1>2, <1>3, <1>4, <1>5, <1>6, <1>7, <1>8, <1>9, <1>10, <1>11, <1>12,
     <1>13, <1>14, <1>15, <1>16, <1>17, <1>18, <1>19, <1>20, <1>21, <1>22,
     <1>23, <1>24, <1>25, <1>26, <1>27, <1>28, <1>29
     DEF Next, UserStep, Acceptors, SessionStep, ServerEnds

LEMMA DeploymentServiceInv == Spec => [](Inv /\ FitInv /\ ServiceInv)
<1>1. Inv /\ FitInv /\ ServiceInv /\ [Next]_vars => ServiceInv'
  BY ServiceInvStep
<1> QED
  BY <1>1, ServiceInit, DeploymentFitInv, PTL DEF Spec

\* At most what was taken is answered, and at most what was sent is taken.
LEMMA TakenAndAnswered ==
  ASSUME Inv, session # NoUser
  PROVE  /\ session \in User /\ Taken \in 0 .. MaxSent /\ Answered \in Nat
         /\ InputIsValid =>
              Taken = sent[session] - to_server[session] /\ Answered + pending <= Taken
BY DeploymentAssumption DEF Inv, TypeOK, Account, Accounted, Taken, Answered

\* The statuses when the first t inputs were taken and the first a answered.
Status(t, a) ==
  [i \in 1 .. MaxSent |-> IF i > t THEN "new" ELSE IF i > a THEN "accepted" ELSE "answered"]

LEMMA StatusTakes ==
  ASSUME NEW t \in Nat, NEW a \in Nat, a <= t
  PROVE  Status(t + 1, a) = [Status(t, a) EXCEPT ![t + 1] = "accepted"]
<1>1. [Status(t, a) EXCEPT ![t + 1] = "accepted"]
        = [i \in 1 .. MaxSent |-> IF i = t + 1 THEN "accepted" ELSE Status(t, a)[i]]
  BY DEF Status
<1>2. ASSUME NEW i \in 1 .. MaxSent
      PROVE  Status(t + 1, a)[i] = IF i = t + 1 THEN "accepted" ELSE Status(t, a)[i]
  BY DeploymentAssumption DEF Status
<1>3. Status(t + 1, a) = [i \in 1 .. MaxSent |-> Status(t + 1, a)[i]]
  BY DEF Status
<1> QED
  BY <1>1, <1>2, <1>3

LEMMA StatusAnswers ==
  ASSUME NEW t \in Nat, NEW a \in Nat, a < t
  PROVE  Status(t, a + 1) = [Status(t, a) EXCEPT ![a + 1] = "answered"]
<1>1. [Status(t, a) EXCEPT ![a + 1] = "answered"]
        = [i \in 1 .. MaxSent |-> IF i = a + 1 THEN "answered" ELSE Status(t, a)[i]]
  BY DEF Status
<1>2. ASSUME NEW i \in 1 .. MaxSent
      PROVE  Status(t, a + 1)[i] = IF i = a + 1 THEN "answered" ELSE Status(t, a)[i]
  BY DeploymentAssumption DEF Status
<1>3. Status(t, a + 1) = [i \in 1 .. MaxSent |-> Status(t, a + 1)[i]]
  BY DEF Status
<1> QED
  BY <1>1, <1>2, <1>3

\* The promise knows of a session only what was taken and what was answered.
LEMMA Stutters ==
  ASSUME sessionBar' = sessionBar, session' = session,
         session # NoUser => Taken' = Taken /\ Answered' = Answered
  PROVE  UNCHANGED Service!svars
<1>1. CASE session = NoUser
  BY <1>1 DEF Service!svars, statusBar
<1>2. CASE session # NoUser
  BY <1>2 DEF Service!svars, statusBar
<1> QED
  BY <1>1, <1>2

\* So does an end of the session that leaves the counts alone.
LEMMA Aborts ==
  ASSUME sessionBar \in {"opening", "open"}, sessionBar' = "closed", session' = session,
         session # NoUser, Taken' = Taken, Answered' = Answered
  PROVE  Service!Abort
BY DEF Service!Abort, statusBar

\* Steps that leave the counts and the stage of the session alone.
LEMMA SameCounts ==
  ASSUME UNCHANGED <<user_server, stage, session, work, sent, received, wires>>
  PROVE  UNCHANGED Service!svars
<1>1. sessionBar' = sessionBar
  BY DEF sessionBar
<1>2. Taken' = Taken /\ Answered' = Answered
  BY DEF Taken, Answered, InputIsValid, InputOf, wires
<1> QED
  BY <1>1, <1>2, Stutters

\* Every step of the programs is one of the service, or none.
LEMMA ServiceStep ==
  ASSUME Inv, FitInv, ServiceInv, [Next]_vars
  PROVE  [Service!Next]_(Service!svars)
<1> USE DEF server, nodes, users, loops, wires
<1>0. NoUser \notin User
  BY DeploymentAssumption
<1>1. ASSUME NEW u \in User, UserConnects(u) PROVE UNCHANGED Service!svars
  <2>1. session # u /\ UNCHANGED <<server, loops, wires>>
    BY <1>1, <1>0 DEF UserConnects, Inv, TypeOK, FitInv
  <2>2. session # NoUser => work'[session] = work[session]
    BY <1>1, <2>1 DEF UserConnects, Inv, TypeOK
  <2>3. sessionBar' = sessionBar
    BY <2>1 DEF sessionBar
  <2>4. session # NoUser => Taken' = Taken /\ Answered' = Answered
    BY <2>1, <2>2 DEF Taken, Answered, InputIsValid, InputOf
  <2> QED
    BY <2>1, <2>3, <2>4, Stutters
<1>2. ASSUME NEW u \in User, UserDies(u) PROVE UNCHANGED Service!svars
  BY <1>2, SameCounts DEF UserDies
<1>3. ASSUME NEW u \in User, ResponseFails(u) PROVE UNCHANGED Service!svars
  BY <1>3, SameCounts DEF ResponseFails
<1>4. ASSUME NEW u \in User, TimerExpires(u) PROVE UNCHANGED Service!svars
  BY <1>4, SameCounts DEF TimerExpires
<1>5. ASSUME NEW u \in User, SendCompletes(u) PROVE UNCHANGED Service!svars
  <2>1. /\ to_server' = [to_server EXCEPT ![u] = @ + 1]
        /\ sent' = [sent EXCEPT ![u] = @ + 1]
        /\ UNCHANGED <<server, work, received, to_user>>
    BY <1>5 DEF SendCompletes
  <2>2. sessionBar' = sessionBar
    BY <2>1 DEF sessionBar
  <2>3. InputIsValid' = InputIsValid /\ Answered' = Answered
    BY <2>1 DEF InputIsValid, InputOf, Answered
  <2>4. session # NoUser =>
          sent'[session] - to_server'[session] = sent[session] - to_server[session]
    BY <2>1, DeploymentAssumption DEF Inv, TypeOK
  <2>5. session # NoUser => Taken' = Taken
    BY <2>1, <2>3, <2>4 DEF Taken
  <2> QED
    BY <2>1, <2>2, <2>3, <2>5, Stutters
<1>6. ASSUME NEW u \in User, SendFails(u) PROVE UNCHANGED Service!svars
  BY <1>6, SameCounts DEF SendFails
<1>7. ASSUME NEW u \in User, ReceiveResult(u) PROVE UNCHANGED Service!svars
  <2>1. /\ to_user' = [to_user EXCEPT ![u] = @ - 1]
        /\ received' = [received EXCEPT ![u] = @ + 1]
        /\ UNCHANGED <<server, work, sent, to_server>>
    BY <1>7 DEF ReceiveResult
  <2>2. sessionBar' = sessionBar /\ Taken' = Taken
    BY <2>1 DEF sessionBar, Taken, InputIsValid, InputOf
  <2>3. session # NoUser => Answered' = Answered
    BY <2>1, DeploymentAssumption DEF Answered, Inv, TypeOK
  <2> QED
    BY <2>1, <2>2, <2>3, Stutters
<1>8. ASSUME NEW u \in User, ReceiveFails(u) PROVE UNCHANGED Service!svars
  BY <1>8, SameCounts DEF ReceiveFails
<1>9. ASSUME NEW u \in User, UserEnds(u) PROVE UNCHANGED Service!svars
  BY <1>9, SameCounts DEF UserEnds
<1>10. ASSUME NEW u \in User, AcceptUser(u) PROVE UNCHANGED Service!svars
  <2>1. /\ user_server = "accepting" /\ user_conn[u] = "backlog" /\ session = NoUser
        /\ user_server' = "serving" /\ session' = u /\ stage' = "first"
        /\ UNCHANGED <<work, loops, wires>>
    BY <1>10 DEF AcceptUser, Inv, NoSessionYet
  <2>2. sent[u] = 0 /\ to_server[u] = 0
    BY <2>1 DEF ServiceInv
  <2>3. Taken' = 0
    BY <2>1, <2>2 DEF Taken
  <2>4. sessionBar' = sessionBar
    BY <2>1 DEF sessionBar
  <2>5. statusBar' = statusBar
    BY <1>0, <2>1, <2>3 DEF statusBar
  <2> QED
    BY <2>4, <2>5 DEF Service!svars
<1>11. ASSUME NEW n \in Node, NodeConnects(n) PROVE UNCHANGED Service!svars
  BY <1>11, SameCounts DEF NodeConnects
<1>12. ASSUME NEW n \in Node, NodeDies(n) PROVE UNCHANGED Service!svars
  BY <1>12, SameCounts DEF NodeDies
<1>13. ASSUME NEW n \in Node, NodeEnds(n) PROVE UNCHANGED Service!svars
  BY <1>13, SameCounts DEF NodeEnds
<1>14. ASSUME NEW n \in Node, AcceptNode(n) PROVE UNCHANGED Service!svars
  BY <1>14, SameCounts DEF AcceptNode
<1>15. ASSUME NEW n \in Node, ConfiguresNode(n) PROVE UNCHANGED Service!svars
  BY <1>15, SameCounts DEF ConfiguresNode
<1>16. ASSUME NEW n \in Node, DropsNode(n) PROVE UNCHANGED Service!svars
  BY <1>16, SameCounts DEF DropsNode
<1>17. CASE AcceptorCancelled
  BY <1>17, SameCounts DEF AcceptorCancelled
<1>18. CASE ProcessEnds
  BY <1>18, SameCounts DEF ProcessEnds
<1>19. CASE LoopsEnd
  BY <1>19, SameCounts DEF LoopsEnd
<1>20. CASE FirstConfig
  <2>1. /\ user_server = "serving" /\ stage = "first" /\ stage' = "nodes"
        /\ UNCHANGED <<user_server, session, work, loops, wires>>
    BY <1>20 DEF FirstConfig, Serving
  <2>2. sessionBar' = sessionBar
    BY <2>1 DEF sessionBar
  <2>3. Taken' = Taken /\ Answered' = Answered
    BY <2>1 DEF Taken, Answered, InputIsValid, InputOf
  <2> QED
    BY <2>1, <2>2, <2>3, Stutters
<1>21. CASE FirstConfigFails
  <2>1. session # NoUser /\ user_server = "serving" /\ stage \in {"first", "nodes", "serving"}
    BY <1>21 DEF FirstConfigFails, Serving, Inv, NoSessionYet
  <2>2. /\ user_server' = "returned" /\ UNCHANGED <<session, stage, work, loops, wires>>
    BY <1>21 DEF FirstConfigFails, Returns
  <2>3. sessionBar \in {"opening", "open"} /\ sessionBar' = "closed"
    BY <2>1, <2>2 DEF sessionBar
  <2>4. Taken' = Taken /\ Answered' = Answered
    BY <2>2 DEF Taken, Answered, InputIsValid, InputOf
  <2> QED
    BY <2>1, <2>2, <2>3, <2>4, Aborts DEF Service!Next
<1>22. CASE ConfigAnswered
  <2>1. /\ session # NoUser /\ user_server = "serving" /\ stage = "nodes" /\ stage' = "serving"
        /\ UNCHANGED <<user_server, session, work, loops, wires>>
    BY <1>22 DEF ConfigAnswered, Serving, Inv, NoSessionYet
  <2>2. sessionBar = "opening" /\ sessionBar' = "open"
    BY <2>1 DEF sessionBar
  <2>3. Taken' = Taken /\ Answered' = Answered
    BY <2>1 DEF Taken, Answered, InputIsValid, InputOf
  <2>4. UNCHANGED statusBar
    BY <2>1, <2>3 DEF statusBar
  <2> QED
    BY <2>2, <2>4 DEF Service!Open, Service!Next
<1>23. CASE ConfigResponseFails
  <2>1. session # NoUser /\ user_server = "serving" /\ stage \in {"first", "nodes", "serving"}
    BY <1>23 DEF ConfigResponseFails, Serving, Inv, NoSessionYet
  <2>2. /\ user_server' = "returned" /\ UNCHANGED <<session, stage, work, loops, wires>>
    BY <1>23 DEF ConfigResponseFails, Returns
  <2>3. sessionBar \in {"opening", "open"} /\ sessionBar' = "closed"
    BY <2>1, <2>2 DEF sessionBar
  <2>4. Taken' = Taken /\ Answered' = Answered
    BY <2>2 DEF Taken, Answered, InputIsValid, InputOf
  <2> QED
    BY <2>1, <2>2, <2>3, <2>4, Aborts DEF Service!Next
<1>24. CASE TakesInput
  <2>1. /\ session # NoUser /\ user_server = "serving" /\ stage = "serving"
        /\ to_server[session] > 0 /\ InputIsValid
        /\ to_server' = [to_server EXCEPT ![session] = @ - 1]
        /\ stage' \in {"serving", "waiting"}
        /\ UNCHANGED <<user_server, session, work, sent, received, to_user>>
    BY <1>24 DEF TakesInput, Serving, Inv, NoSessionYet
  <2>2. sessionBar = "open" /\ sessionBar' = "open"
    BY <2>1 DEF sessionBar
  <2>3. InputIsValid' /\ Answered' = Answered
    BY <2>1 DEF InputIsValid, InputOf, Answered
  <2>4. /\ Taken \in 0 .. MaxSent /\ Answered \in Nat /\ Answered <= Taken
        /\ Taken = sent[session] - to_server[session]
    BY <2>1, TakenAndAnswered DEF Inv, TypeOK
  <2>5. Taken' = Taken + 1 /\ Taken + 1 \in 1 .. MaxSent
    BY <2>1, <2>3, <2>4, TakenAndAnswered, DeploymentAssumption DEF Taken, Inv, TypeOK
  <2> HIDE DEF Taken, Answered
  <2>6. statusBar[Taken + 1] = "new"
    BY <2>4, <2>5 DEF statusBar
  <2>a. statusBar = Status(Taken, Answered)
    BY <2>1, <2>4 DEF statusBar, Status
  <2>b. statusBar' = Status(Taken + 1, Answered)
    BY <2>1, <2>3, <2>4, <2>5 DEF statusBar, Status
  <2>7. statusBar' = [statusBar EXCEPT ![Taken + 1] = "accepted"]
    BY <2>4, <2>5, <2>a, <2>b, StatusTakes
  <2>8. Service!Accept(Taken + 1)
    BY <2>2, <2>6, <2>7 DEF Service!Accept
  <2> QED
    BY <2>5, <2>8 DEF Service!Next
<1>25. CASE RefusesInput
  <2>1. /\ session # NoUser /\ user_server = "serving" /\ stage = "serving" /\ ~InputIsValid
    BY <1>25 DEF RefusesInput, Serving, Inv, NoSessionYet
  <2>2. /\ user_server' = "returned"
        /\ UNCHANGED <<session, stage, work, loops, to_user>>
    BY <1>25 DEF RefusesInput, Returns
  <2>3. sessionBar \in {"opening", "open"} /\ sessionBar' = "closed"
    BY <2>1, <2>2 DEF sessionBar
  <2>4. InputIsValid' = InputIsValid /\ Answered' = Answered
    BY <2>2 DEF Answered, InputIsValid, InputOf
  <2>5. Taken' = Taken
    BY <2>1, <2>4 DEF Taken
  <2> QED
    BY <2>1, <2>2, <2>3, <2>4, <2>5, Aborts DEF Service!Next
<1>26. CASE UserGone
  <2>1. session # NoUser /\ user_server = "serving" /\ stage \in {"first", "nodes", "serving"}
    BY <1>26 DEF UserGone, Serving, Inv, NoSessionYet
  <2>2. /\ user_server' = "returned" /\ UNCHANGED <<session, stage, work, loops, wires>>
    BY <1>26 DEF UserGone, Returns
  <2>3. sessionBar \in {"opening", "open"} /\ sessionBar' = "closed"
    BY <2>1, <2>2 DEF sessionBar
  <2>4. Taken' = Taken /\ Answered' = Answered
    BY <2>2 DEF Taken, Answered, InputIsValid, InputOf
  <2> QED
    BY <2>1, <2>2, <2>3, <2>4, Aborts DEF Service!Next
<1>27. CASE Answers
  <2>1. /\ session # NoUser /\ user_server = "serving" /\ pending > 0
        /\ to_user' = [to_user EXCEPT ![session] = @ + 1]
        /\ UNCHANGED <<user_server, session, stage, work, loops, to_server>>
    BY <1>27 DEF Answers, Inv, NoSessionYet
  <2>2. stage \in {"serving", "waiting"} /\ InputIsValid
    BY <2>1 DEF ServiceInv
  <2>3. sessionBar = "open" /\ sessionBar' = "open"
    BY <2>1, <2>2 DEF sessionBar
  <2>4. Taken' = Taken
    BY <2>1 DEF InputIsValid, InputOf, Taken
  <2>5. Taken \in 0 .. MaxSent /\ Answered \in Nat /\ Answered + 1 <= Taken
    BY <2>1, <2>2, TakenAndAnswered DEF Inv, TypeOK
  <2>6. Answered' = Answered + 1 /\ Answered + 1 \in 1 .. MaxSent
    BY <2>1, <2>5, TakenAndAnswered, DeploymentAssumption DEF Answered, Inv, TypeOK
  <2>7. statusBar[Answered + 1] = "accepted"
    BY <2>1, <2>5, <2>6 DEF statusBar
  <2>a. statusBar = Status(Taken, Answered)
    BY <2>1, <2>5 DEF statusBar, Status
  <2>b. statusBar' = Status(Taken, Answered + 1)
    BY <2>1, <2>4, <2>5, <2>6 DEF statusBar, Status
  <2>8. statusBar' = [statusBar EXCEPT ![Answered + 1] = "answered"]
    BY <2>5, <2>6, <2>a, <2>b, StatusAnswers
  <2>9. Service!Answer(Answered + 1)
    BY <2>3, <2>7, <2>8 DEF Service!Answer
  <2> QED
    BY <2>6, <2>9 DEF Service!Next
<1>28. CASE LosesInput
  BY <1>28, SameCounts DEF LosesInput
<1>29. CASE UNCHANGED vars
  BY <1>29, SameCounts DEF vars
<1> QED
  BY <1>1, <1>2, <1>3, <1>4, <1>5, <1>6, <1>7, <1>8, <1>9, <1>10, <1>11, <1>12,
     <1>13, <1>14, <1>15, <1>16, <1>17, <1>18, <1>19, <1>20, <1>21, <1>22,
     <1>23, <1>24, <1>25, <1>26, <1>27, <1>28, <1>29
     DEF Next, UserStep, Acceptors, SessionStep, ServerEnds

\* The server with its users and nodes does what UserSession promises of one of its
\* sessions: for any users, nodes, workloads and bounds, whoever dies and whatever
\* is refused or lost, no input is answered twice or before it was taken, and none is
\* taken before the configuration is answered or after the session ended (Server.hpp
\* _start_user_server, test_user.cpp, test_node.cpp).
THEOREM DeploymentImplementsService == Spec => ImplementsService
<1>1. Init => Service!Init
  BY DEF Init, Service!Init, sessionBar, statusBar
<1>2. Inv /\ FitInv /\ ServiceInv /\ [Next]_vars => [Service!Next]_(Service!svars)
  BY ServiceStep
<1> QED
  BY <1>1, <1>2, DeploymentServiceInv, PTL DEF Spec, ImplementsService, Service!Spec
=============================================================================
