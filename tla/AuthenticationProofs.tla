------------------------ MODULE AuthenticationProofs ------------------------
(***************************************************************************)
(* Proofs about Authentication, for all accounts and numbers of chains.    *)
(***************************************************************************)
EXTENDS Authentication, TLAPS

USE ChainsAssumption, UsersAssumption

LEMMA AppendFacts ==
  ASSUME NEW S, NEW s \in Seq(S), NEW e \in S
  PROVE  /\ Append(s, e) \in Seq(S)
         /\ DOMAIN Append(s, e) = DOMAIN s \cup {Len(s) + 1}
         /\ Len(s) + 1 \notin DOMAIN s
         /\ \A i \in DOMAIN s : Append(s, e)[i] = s[i]
         /\ Append(s, e)[Len(s) + 1] = e
OBVIOUS

LEMMA TailFacts ==
  ASSUME NEW S, NEW s \in Seq(S), s # <<>>
  PROVE  /\ Tail(s) \in Seq(S)
         /\ 1 \in DOMAIN s /\ Head(s) = s[1] /\ Head(s) \in S
         /\ \A i \in DOMAIN Tail(s) : i + 1 \in DOMAIN s /\ i + 1 # 1 /\ Tail(s)[i] = s[i + 1]
         /\ DOMAIN Tail(s) \subseteq Nat
OBVIOUS

Typed ==
  /\ asked \subseteq Request
  /\ main \in Seq(Block)
  /\ chains \in 0..MaxChains
  /\ Placed

\* A chain that begins is new.
LEMMA BeginAsking ==
  ASSUME Typed, Begin, NEW r \in Request, r.chain = chains',
         asked' = asked \cup {r}, main' = main
  PROVE  Typed'
<1>1. chains \in Nat /\ chains' = chains + 1 /\ chains' \in 0..MaxChains
  BY DEF Begin, Typed
<1>2. \A q \in asked : q.chain \in 1..MaxChains /\ q.chain # r.chain /\ q.chain <= chains'
  BY <1>1 DEF Typed, Placed, Request
<1>3. \A i \in DOMAIN main : main[i] \in Block
  BY DEF Typed
<1>4. \A i \in DOMAIN main : main[i].chain # r.chain /\ main[i].chain <= chains'
  BY <1>1, <1>3 DEF Typed, Placed, Block
<1> QED
  BY <1>1, <1>2, <1>4 DEF Typed, Placed

LEMMA BeginQueueing ==
  ASSUME Typed, Begin, NEW b \in Block, b.chain = chains',
         asked' = asked, main' = Append(main, b)
  PROVE  Typed'
<1>1. chains \in Nat /\ chains' = chains + 1 /\ chains' \in 0..MaxChains
  BY DEF Begin, Typed
<1>2. \A q \in asked : q.chain \in 1..MaxChains /\ q.chain # b.chain /\ q.chain <= chains'
  BY <1>1 DEF Typed, Placed, Request
<1>3. \A i \in DOMAIN main : main[i] \in Block
  BY DEF Typed
<1>4. \A i \in DOMAIN main : main[i].chain # b.chain /\ main[i].chain <= chains'
  BY <1>1, <1>3 DEF Typed, Placed, Block
<1>5. /\ main' \in Seq(Block)
      /\ DOMAIN main' = DOMAIN main \cup {Len(main) + 1}
      /\ \A i \in DOMAIN main : main'[i] = main[i]
      /\ main'[Len(main) + 1] = b
  BY AppendFacts DEF Typed
<1> QED
  BY <1>1, <1>2, <1>4, <1>5 DEF Typed, Placed

\* A request that is answered leaves its place to what follows it.
LEMMA AnsweredOnly ==
  ASSUME Typed, NEW r \in asked, asked' = asked \ {r}, UNCHANGED <<main, chains>>
  PROVE  Typed'
BY DEF Typed, Placed

LEMMA AnsweredByBlock ==
  ASSUME Typed, NEW r \in asked, NEW does \in Blocks, Answered(r), Queue(r, does),
         UNCHANGED chains
  PROVE  Typed'
<1> DEFINE b == [chain |-> r.chain, does |-> does, who |-> r.who]
<1>1. b \in Block /\ b.chain = r.chain /\ b.chain <= chains
  BY DEF Typed, Placed, Request, Block
<1>2. main' = Append(main, b) /\ asked' = asked \ {r}
  BY DEF Queue, Answered
<1> HIDE DEF b
<1>3. /\ main' \in Seq(Block)
      /\ DOMAIN main' = DOMAIN main \cup {Len(main) + 1}
      /\ \A i \in DOMAIN main : main'[i] = main[i]
      /\ main'[Len(main) + 1] = b
  BY <1>1, <1>2, AppendFacts DEF Typed
<1>4. \A q \in asked' : q \in asked /\ q.chain # b.chain
  BY <1>1, <1>2 DEF Typed, Placed
<1>5. \A i \in DOMAIN main : main[i].chain # b.chain
  BY <1>1 DEF Typed, Placed
<1> QED
  BY <1>1, <1>2, <1>3, <1>4, <1>5 DEF Typed, Placed

LEMMA AnsweredByRequest ==
  ASSUME Typed, NEW r \in asked, NEW op \in Ops, Continues(r, op), UNCHANGED <<main, chains>>
  PROVE  Typed'
<1> DEFINE q == [r EXCEPT !.op = op]
<1>1. q \in Request /\ q.chain = r.chain
  BY DEF Typed, Request
<1>2. asked' = (asked \ {r}) \cup {q}
  BY DEF Continues
<1> HIDE DEF q
<1> QED
  BY <1>1, <1>2 DEF Typed, Placed

\* A block that has run leaves its place to the request it makes, if any.
LEMMA BlockRun ==
  ASSUME Typed, RunMain
  PROVE  Typed' /\ Head(main) \in Block
<1> DEFINE b == Head(main)
           new == {[chain |-> b.chain, op |-> op, who |-> b.who] : op \in Follows(b)}
<1>1. main # <<>> /\ main' = Tail(main) /\ asked' = asked \cup new /\ chains' = chains
  BY DEF RunMain
<1>2. /\ main' \in Seq(Block)
      /\ 1 \in DOMAIN main /\ b = main[1] /\ b \in Block
      /\ \A i \in DOMAIN main' : i + 1 \in DOMAIN main /\ i + 1 # 1 /\ main'[i] = main[i + 1]
      /\ DOMAIN main' \subseteq Nat
  BY <1>1, TailFacts DEF Typed
<1>3. \A op, op2 \in Follows(b) : op = op2
  BY DEF Follows
<1>4. /\ \A q \in new : q \in Request /\ q.chain = b.chain
      /\ \A q, q2 \in new : q = q2
  BY <1>2, <1>3 DEF Follows, Request, Block
<1> HIDE DEF new, b
<1>5. b.chain <= chains /\ \A q \in asked : q.chain # b.chain
  BY <1>2 DEF Typed, Placed
<1>6. \A i \in DOMAIN main' : main'[i].chain # b.chain /\ main'[i].chain <= chains
  BY <1>2 DEF Typed, Placed
<1>7. \A i, j \in DOMAIN main' : main'[i].chain = main'[j].chain => i = j
  <2> SUFFICES ASSUME NEW i \in DOMAIN main', NEW j \in DOMAIN main',
                      main'[i].chain = main'[j].chain
               PROVE  i = j
    OBVIOUS
  <2>1. i + 1 = j + 1
    BY <1>2 DEF Typed, Placed
  <2> QED
    BY <1>2, <2>1
<1>8. \A i \in DOMAIN main', q \in asked : main'[i].chain # q.chain
  BY <1>2 DEF Typed, Placed
<1>9. Typed'
  BY <1>1, <1>2, <1>4, <1>5, <1>6, <1>7, <1>8 DEF Typed, Placed
<1> QED
  BY <1>2, <1>9 DEF b
-----------------------------------------------------------------------------
LEMMA TypedStep ==
  ASSUME TypeOK, [Next]_authVars
  PROVE  Typed'
<1> USE DEF Answered, Blocks, Ops
<1>0. Typed
  BY DEF TypeOK, Typed
<1>1. ASSUME NEW op \in Ops, Press(op) PROVE Typed'
  <2>1. PICK w \in Users : Ask(op, w)
    BY <1>1 DEF Press
  <2> DEFINE r == [chain |-> chains', op |-> op, who |-> w]
  <2>2. chains' \in 1..MaxChains
    BY <1>0, <1>1 DEF Press, Begin, Typed
  <2>3. r \in Request /\ r.chain = chains' /\ asked' = asked \cup {r}
    BY <2>1, <2>2 DEF Ask, Request
  <2> HIDE DEF r
  <2> QED
    BY <1>0, <1>1, <2>3, BeginAsking DEF Press
<1>2. CASE SignOut
  <2> DEFINE b == [chain |-> chains', does |-> "signedOut", who |-> user]
  <2>1. chains' \in 1..MaxChains /\ user \in Users
    BY <1>0, <1>2 DEF SignOut, Begin, Typed, TypeOK
  <2>2. b \in Block /\ b.chain = chains' /\ main' = Append(main, b)
    BY <1>2, <2>1 DEF SignOut, Block
  <2> HIDE DEF b
  <2> QED
    BY <1>0, <1>2, <2>2, BeginQueueing DEF SignOut
<1>3. CASE Launch
  <2>1. CASE asked' = {} /\ chains' = chains
    BY <1>0, <1>3, <2>1 DEF Launch, Typed, Placed
  <2>2. CASE /\ currentUser # NoUser /\ Begin
             /\ asked' = {[chain |-> chains', op |-> "getDocument", who |-> currentUser]}
    <3>1. chains' \in 1..MaxChains /\ currentUser \in Users
      BY <1>0, <2>2 DEF Begin, Typed, TypeOK
    <3> QED
      BY <1>0, <1>3, <2>2, <3>1 DEF Launch, Typed, Placed, Request
  <2> QED
    BY <1>3, <2>1, <2>2 DEF Launch
<1>4. ASSUME NEW r \in asked, Answer(r) PROVE Typed'
  <2>1. CASE CreateUser(r)
    BY <1>0, <2>1, AnsweredByBlock DEF CreateUser
  <2>2. CASE SignInAnswered(r)
    BY <1>0, <2>2, AnsweredByBlock DEF SignInAnswered
  <2>3. CASE GetDocument(r)
    BY <1>0, <2>3, AnsweredByBlock DEF GetDocument
  <2>4. CASE DisableNetwork(r)
    BY <1>0, <2>4, AnsweredByRequest, AnsweredOnly DEF DisableNetwork
  <2>5. CASE EnableNetwork(r)
    BY <1>0, <2>5, AnsweredByRequest, AnsweredByBlock DEF EnableNetwork
  <2> QED
    BY <1>4, <2>1, <2>2, <2>3, <2>4, <2>5 DEF Answer
<1>5. ASSUME NEW w \in unsent, Acknowledge(w) PROVE Typed'
  <2>1. CASE UNCHANGED <<asked, main>>
    BY <1>0, <1>5, <2>1 DEF Acknowledge, Typed, Placed
  <2>2. ASSUME NEW r \in asked, NEW kept \in BOOLEAN,
               Answered(r), Queue(r, IF kept THEN "saved" ELSE "failed")
        PROVE  Typed'
    <3>1. (IF kept THEN "saved" ELSE "failed") \in Blocks
      OBVIOUS
    <3> QED
      BY <1>0, <1>5, <2>2, <3>1, AnsweredByBlock DEF Acknowledge
  <2> QED
    BY <1>5, <2>1, <2>2 DEF Acknowledge
<1>6. CASE RunMain
  BY <1>0, <1>6, BlockRun
<1>7. CASE UNCHANGED authVars
  BY <1>0, <1>7 DEF authVars, Typed, Placed
<1> QED
  BY <1>1, <1>2, <1>3, <1>4, <1>5, <1>6, <1>7 DEF Next, SignUp, SignIn

\* The rest of TypeOK: the variables that are not queues.
Valued ==
  /\ accounts \subseteq Users
  /\ currentUser \in Users \cup {NoUser}
  /\ profiles \subseteq Users
  /\ unsent \subseteq Users
  /\ online \in BOOLEAN
  /\ user \in Users \cup {NoUser}
  /\ isLoading \in BOOLEAN
  /\ overlapped \in BOOLEAN
  /\ stranded \in BOOLEAN

LEMMA ValuedStep ==
  ASSUME TypeOK, [Next]_authVars
  PROVE  Valued'
<1>0. Valued
  BY DEF TypeOK, Valued
<1> USE DEF Valued, firebaseVars, appVars, historyVars
<1>1. \A r \in asked : r.who \in Users
  BY DEF TypeOK, Request
<1>2. ASSUME NEW op \in Ops, Press(op) PROVE Valued'
  BY <1>0, <1>2 DEF Press, NoteOverlap
<1>3. CASE SignOut
  BY <1>0, <1>3 DEF SignOut, NoteOverlap
<1>4. CASE Launch
  BY <1>0, <1>4 DEF Launch
<1>5. ASSUME NEW r \in asked, Answer(r) PROVE Valued'
  <2>1. CASE CreateUser(r)
    BY <1>0, <1>1, <2>1 DEF CreateUser
  <2>2. CASE SignInAnswered(r)
    BY <1>0, <1>1, <2>2 DEF SignInAnswered
  <2>3. CASE GetDocument(r)
    BY <1>0, <2>3 DEF GetDocument
  <2>4. CASE DisableNetwork(r)
    BY <1>0, <2>4 DEF DisableNetwork
  <2>5. CASE EnableNetwork(r)
    BY <1>0, <1>1, <2>5 DEF EnableNetwork
  <2> QED
    BY <1>5, <2>1, <2>2, <2>3, <2>4, <2>5 DEF Answer
<1>6. ASSUME NEW w \in unsent, Acknowledge(w) PROVE Valued'
  BY <1>0, <1>6 DEF Acknowledge
<1>7. CASE RunMain
  <2>1. Head(main) \in Block
    BY <1>7, BlockRun DEF TypeOK, Typed
  <2>2. user' \in Users \cup {NoUser}
    BY <1>0, <1>7, <2>1 DEF RunMain, ShownAfter, Block
  <2>3. isLoading' \in BOOLEAN
    BY <1>7 DEF RunMain
  <2> QED
    BY <1>0, <1>7, <2>2, <2>3 DEF RunMain
<1>8. CASE UNCHANGED authVars
  BY <1>0, <1>8 DEF authVars
<1> QED
  BY <1>2, <1>3, <1>4, <1>5, <1>6, <1>7, <1>8 DEF Next, SignUp, SignIn, Ops

LEMMA TypeInvariant == Spec => []TypeOK
<1>1. Init => TypeOK
  <2> SUFFICES ASSUME Init PROVE TypeOK
    OBVIOUS
  <2>1. Placed /\ asked \subseteq Request /\ chains \in 0..MaxChains
    BY DEF Init, Placed
  <2>2. main \in Seq(Block)
    BY DEF Init
  <2> QED
    BY <2>1, <2>2 DEF Init, TypeOK
<1>2. TypeOK /\ [Next]_authVars => TypeOK'
  BY TypedStep, ValuedStep DEF TypeOK, Typed, Valued
<1> QED
  BY <1>1, <1>2, PTL DEF Spec

\* What Firebase and the app hold is of its type, and a chain of requests is
\* always at one step: no completion runs twice.
THEOREM TypeCorrect == Spec => []TypeOK
BY TypeInvariant
-----------------------------------------------------------------------------
(* Accounts.                                                                *)

OpsWithAccount == {"getDocument", "disableNetwork", "enableNetwork", "setData"}
BlocksWithAccount == {"created", "signedIn", "saved", "fetched"}

\* Whoever is signed in, or whose chain has got past its first answer, has
\* an account.
AccountInv ==
  /\ ProfilesHaveAccounts
  /\ currentUser # NoUser => currentUser \in accounts
  /\ \A r \in asked : r.op \in OpsWithAccount => r.who \in accounts
  /\ \A i \in DOMAIN main : main[i].does \in BlocksWithAccount => main[i].who \in accounts

LEMMA QueueFacts ==
  ASSUME TypeOK, NEW r \in asked, NEW does \in Blocks, Queue(r, does)
  PROVE  /\ DOMAIN main' = DOMAIN main \cup {Len(main) + 1}
         /\ \A i \in DOMAIN main : main'[i] = main[i]
         /\ main'[Len(main) + 1].does = does
         /\ main'[Len(main) + 1].who = r.who
<1> DEFINE b == [chain |-> r.chain, does |-> does, who |-> r.who]
<1>1. b \in Block /\ b.does = does /\ b.who = r.who /\ main \in Seq(Block)
  BY DEF TypeOK, Request, Block
<1>2. main' = Append(main, b)
  BY DEF Queue
<1> HIDE DEF b
<1> QED
  BY <1>1, <1>2, AppendFacts

LEMMA AccountStep ==
  ASSUME TypeOK, AccountInv, [Next]_authVars
  PROVE  AccountInv'
<1> USE DEF AccountInv, ProfilesHaveAccounts, OpsWithAccount, BlocksWithAccount,
            firebaseVars, appVars, historyVars, Answered, Blocks
<1>1. ASSUME NEW op \in {"createUser", "signIn"}, Press(op) PROVE AccountInv'
  BY <1>1 DEF Press, Ask
<1>2. CASE SignOut
  <2> DEFINE b == [chain |-> chains', does |-> "signedOut", who |-> user]
  <2>1. b \in Block /\ main' = Append(main, b) /\ b.does = "signedOut" /\ main \in Seq(Block)
    BY <1>2 DEF SignOut, Begin, TypeOK, Block
  <2> HIDE DEF b
  <2>2. /\ DOMAIN main' = DOMAIN main \cup {Len(main) + 1}
        /\ \A i \in DOMAIN main : main'[i] = main[i]
        /\ main'[Len(main) + 1].does = "signedOut"
    BY <2>1, AppendFacts
  <2> QED
    BY <1>2, <2>2 DEF SignOut
<1>3. CASE Launch
  BY <1>3 DEF Launch
<1>4. ASSUME NEW r \in asked, Answer(r) PROVE AccountInv'
  <2>1. CASE CreateUser(r)
    BY <2>1, QueueFacts DEF CreateUser
  <2>2. CASE SignInAnswered(r)
    BY <2>2, QueueFacts DEF SignInAnswered
  <2>3. CASE GetDocument(r)
    BY <2>3, QueueFacts DEF GetDocument
  <2>4. CASE DisableNetwork(r)
    <3>1. Continues(r, "enableNetwork") => asked' = (asked \ {r}) \cup {[r EXCEPT !.op = "enableNetwork"]}
      BY DEF Continues
    <3>2. [r EXCEPT !.op = "enableNetwork"].who = r.who
      BY DEF TypeOK, Request
    <3> QED
      BY <2>4, <3>1, <3>2 DEF DisableNetwork
  <2>5. CASE EnableNetwork(r)
    <3>1. Continues(r, "setData") => asked' = (asked \ {r}) \cup {[r EXCEPT !.op = "setData"]}
      BY DEF Continues
    <3>2. [r EXCEPT !.op = "setData"].who = r.who
      BY DEF TypeOK, Request
    <3>3. r.who \in accounts
      BY <2>5 DEF EnableNetwork
    <3>4. CASE Continues(r, "setData") /\ main' = main /\ unsent' = unsent \cup {r.who}
      BY <2>5, <3>1, <3>2, <3>3, <3>4 DEF EnableNetwork
    <3>5. CASE Answered(r) /\ Queue(r, "failed") /\ unsent' = unsent
      BY <2>5, <3>5, QueueFacts DEF EnableNetwork
    <3> QED
      BY <2>5, <3>4, <3>5 DEF EnableNetwork
  <2> QED
    BY <1>4, <2>1, <2>2, <2>3, <2>4, <2>5 DEF Answer
<1>5. ASSUME NEW w \in unsent, Acknowledge(w) PROVE AccountInv'
  <2>1. CASE UNCHANGED <<asked, main>>
    BY <1>5, <2>1 DEF Acknowledge
  <2>2. ASSUME NEW r \in asked, r.op = "setData", NEW kept \in BOOLEAN,
               Answered(r), Queue(r, IF kept THEN "saved" ELSE "failed")
        PROVE  AccountInv'
    <3>1. (IF kept THEN "saved" ELSE "failed") \in Blocks
      OBVIOUS
    <3> QED
      BY <1>5, <2>2, <3>1, QueueFacts DEF Acknowledge
  <2> QED
    BY <1>5, <2>1, <2>2 DEF Acknowledge
<1>6. CASE RunMain
  <2> DEFINE b == Head(main)
             new == {[chain |-> b.chain, op |-> op, who |-> b.who] : op \in Follows(b)}
  <2>1. /\ 1 \in DOMAIN main /\ b = main[1] /\ b \in Block
        /\ \A i \in DOMAIN main' : i + 1 \in DOMAIN main /\ main'[i] = main[i + 1]
    BY <1>6, TailFacts DEF RunMain, TypeOK
  <2>2. asked' = asked \cup new /\ user' = ShownAfter(b)
    BY <1>6 DEF RunMain
  <2>3. \A q \in new : b.does \in BlocksWithAccount /\ q.who = b.who
    BY DEF Follows
  <2> HIDE DEF b, new
  <2>4. user' \in {user, NoUser} \/ (user' = b.who /\ b.who \in accounts)
    BY <2>1, <2>2 DEF ShownAfter
  <2>5. \A q \in new : q.who \in accounts
    BY <2>1, <2>3
  <2> QED
    BY <1>6, <2>1, <2>2, <2>4, <2>5 DEF RunMain
<1>7. CASE UNCHANGED authVars
  BY <1>7 DEF authVars
<1> QED
  BY <1>1, <1>2, <1>3, <1>4, <1>5, <1>6, <1>7 DEF Next, SignUp, SignIn

\* No profile without an account: a refused sign-up or sign-in never reaches
\* saveUser or the screen (AuthenticationManager.swift: signUp, signIn).
THEOREM Accounts == Spec => []ProfilesHaveAccounts
<1>1. Init => AccountInv
  BY DEF Init, AccountInv, ProfilesHaveAccounts
<1>2. AccountInv => ProfilesHaveAccounts
  BY DEF AccountInv
<1> QED
  BY <1>1, <1>2, AccountStep, TypeInvariant, PTL DEF Spec
-----------------------------------------------------------------------------
(* The user shown.                                                          *)

Lone == {"createUser", "signIn"}

\* A chain that is alone is the only thing under way; once Firebase signed its
\* account in, that account stays signed in until the chain ends, and until
\* then nobody is shown; a sign-out that is alone has signed Firebase out.
LoneInv ==
  ~overlapped =>
    /\ \A r, q \in asked : r = q
    /\ asked # {} => main = <<>>
    /\ main # <<>> => Len(main) = 1
    /\ \A r \in asked :
         /\ user = NoUser
         /\ r.op \in OpsWithAccount => currentUser = r.who
    /\ main # <<>> =>
         /\ main[1].does = "signedOut" => currentUser = NoUser
         /\ main[1].does # "signedOut" => user = NoUser
         /\ main[1].does \in BlocksWithAccount => currentUser = main[1].who
    /\ ShownIsSignedIn

\* A chain that is alone and is answered by a block.
LEMMA LoneQueue ==
  ASSUME TypeOK, NEW r \in asked, NEW does \in Blocks, Answered(r), Queue(r, does),
         LoneInv, ~overlapped
  PROVE  /\ asked' = {} /\ Len(main') = 1 /\ main' # <<>>
         /\ main'[1].does = does /\ main'[1].who = r.who
<1> DEFINE b == [chain |-> r.chain, does |-> does, who |-> r.who]
<1>1. main = <<>> /\ \A q \in asked : q = r
  BY DEF LoneInv
<1>2. main' = Append(<<>>, b)
  BY <1>1 DEF Queue
<1>3. b \in Block /\ b.does = does /\ b.who = r.who
  BY DEF TypeOK, Request, Block
<1> HIDE DEF b
<1> QED
  BY <1>1, <1>2, <1>3 DEF Answered

LEMMA LoneStep ==
  ASSUME TypeOK, LoneInv, [Next]_authVars
  PROVE  LoneInv'
<1> USE DEF OpsWithAccount, BlocksWithAccount, firebaseVars, appVars, historyVars, Blocks
<1>1. ASSUME NEW op \in Lone, Press(op) PROVE LoneInv'
  <2> SUFFICES ASSUME ~overlapped' PROVE LoneInv'
    BY DEF LoneInv
  <2>1. asked = {} /\ main = <<>> /\ user = NoUser /\ main' = <<>> /\ user' = NoUser
    BY <1>1 DEF Press, NoteOverlap, Quiet
  <2>2. PICK w \in Users : asked' = {[chain |-> chains', op |-> op, who |-> w]}
    BY <1>1, <2>1 DEF Press, Ask
  <2> QED
    BY <2>1, <2>2 DEF LoneInv, ShownIsSignedIn, Quiet, Lone
<1>2. CASE SignOut
  <2> SUFFICES ASSUME ~overlapped' PROVE LoneInv'
    BY DEF LoneInv
  <2> DEFINE b == [chain |-> chains', does |-> "signedOut", who |-> user]
  <2>1. asked' = {} /\ main = <<>> /\ currentUser' = NoUser
    BY <1>2 DEF SignOut, NoteOverlap, Quiet
  <2>2. main' = Append(<<>>, b) /\ b.does = "signedOut"
    BY <1>2, <2>1 DEF SignOut
  <2> HIDE DEF b
  <2>3. main' # <<>> /\ Len(main') = 1 /\ main'[1] = b
    BY <2>2
  <2> QED
    BY <2>1, <2>2, <2>3 DEF LoneInv, ShownIsSignedIn, Quiet
<1>3. CASE Launch
  BY <1>3 DEF Launch, LoneInv, ShownIsSignedIn, Quiet
<1>4. ASSUME NEW r \in asked, Answer(r) PROVE LoneInv'
  <2>0. overlapped' = overlapped /\ user' = user
    BY <1>4 DEF Answer, CreateUser, SignInAnswered, GetDocument, DisableNetwork, EnableNetwork
  <2> SUFFICES ASSUME ~overlapped PROVE LoneInv'
    BY <2>0 DEF LoneInv
  <2>1. /\ main = <<>> /\ user = NoUser /\ \A q \in asked : q = r
        /\ r.op \in OpsWithAccount => currentUser = r.who
    BY DEF LoneInv
  <2>2. ASSUME NEW does \in Blocks, Answered(r), Queue(r, does), does # "signedOut",
               does \in BlocksWithAccount => currentUser' = r.who
        PROVE  LoneInv'
    BY <2>0, <2>1, <2>2, LoneQueue DEF LoneInv, ShownIsSignedIn, Quiet
  <2>3. ASSUME NEW op \in OpsWithAccount, Continues(r, op), UNCHANGED <<main, currentUser>>,
               r.op \in OpsWithAccount
        PROVE  LoneInv'
    <3>1. [r EXCEPT !.op = op].who = r.who
      BY DEF TypeOK, Request
    <3>2. asked' = {[r EXCEPT !.op = op]}
      BY <2>1, <2>3 DEF Continues
    <3> QED
      BY <2>0, <2>1, <2>3, <3>1, <3>2 DEF LoneInv, ShownIsSignedIn, Quiet
  <2>4. CASE CreateUser(r)
    BY <2>2, <2>4 DEF CreateUser
  <2>5. CASE SignInAnswered(r)
    BY <2>2, <2>5 DEF SignInAnswered
  <2>6. CASE GetDocument(r)
    BY <2>1, <2>2, <2>6 DEF GetDocument
  <2>7. CASE DisableNetwork(r)
    <3>1. CASE Answered(r)
      <4>1. asked' = {} /\ main' = <<>>
        BY <2>1, <2>7, <3>1 DEF DisableNetwork, Answered
      <4> QED
        BY <2>0, <2>1, <4>1 DEF LoneInv, ShownIsSignedIn, Quiet
    <3>2. CASE Continues(r, "enableNetwork")
      BY <2>3, <2>7, <3>2 DEF DisableNetwork
    <3> QED
      BY <2>7, <3>1, <3>2 DEF DisableNetwork
  <2>8. CASE EnableNetwork(r)
    BY <2>2, <2>3, <2>8 DEF EnableNetwork
  <2> QED
    BY <1>4, <2>4, <2>5, <2>6, <2>7, <2>8 DEF Answer
<1>5. ASSUME NEW w \in unsent, Acknowledge(w) PROVE LoneInv'
  <2>0. UNCHANGED <<overlapped, user, currentUser>>
    BY <1>5 DEF Acknowledge
  <2> SUFFICES ASSUME ~overlapped PROVE LoneInv'
    BY <2>0 DEF LoneInv
  <2>1. CASE UNCHANGED <<asked, main>>
    BY <2>0, <2>1 DEF LoneInv, ShownIsSignedIn, Quiet
  <2>2. ASSUME NEW r \in asked, r.op = "setData", NEW kept \in BOOLEAN,
               Answered(r), Queue(r, IF kept THEN "saved" ELSE "failed")
        PROVE  LoneInv'
    <3>1. (IF kept THEN "saved" ELSE "failed") \in Blocks \ {"signedOut"}
      OBVIOUS
    <3>2. currentUser = r.who /\ user = NoUser
      BY <2>2 DEF LoneInv
    <3>3. /\ asked' = {} /\ Len(main') = 1 /\ main' # <<>>
          /\ main'[1].does # "signedOut" /\ main'[1].who = r.who
      BY <2>2, <3>1, LoneQueue
    <3> QED
      BY <2>0, <3>2, <3>3 DEF LoneInv, ShownIsSignedIn, Quiet
  <2> QED
    BY <1>5, <2>1, <2>2 DEF Acknowledge
<1>6. CASE RunMain
  <2> DEFINE b == main[1]
             new == {[chain |-> b.chain, op |-> op, who |-> b.who] : op \in Follows(b)}
  <2>0. overlapped' = overlapped /\ currentUser' = currentUser
    BY <1>6 DEF RunMain
  <2> SUFFICES ASSUME ~overlapped PROVE LoneInv'
    BY <2>0 DEF LoneInv
  <2>1. main # <<>> /\ Len(main) = 1 /\ main \in Seq(Block) /\ asked = {} /\ main' = Tail(main)
    BY <1>6 DEF RunMain, LoneInv, TypeOK
  <2>2. main' = <<>> /\ Head(main) = b
    BY <2>1
  <2>3. asked' = new /\ user' = ShownAfter(b)
    BY <1>6, <2>1, <2>2 DEF RunMain
  <2>4. \A op, op2 \in Follows(b) : op = op2
    BY DEF Follows
  <2>5. \A op \in Follows(b) : op \in OpsWithAccount /\ b.does \in {"created", "signedIn"}
    BY DEF Follows
  <2>6. /\ b.does = "signedOut" => currentUser = NoUser
        /\ b.does # "signedOut" => user = NoUser
        /\ b.does \in BlocksWithAccount => currentUser = b.who
    BY <2>1 DEF LoneInv
  <2> HIDE DEF b
  <2>7. \A q, q2 \in new : q = q2
    BY <2>4
  <2>8. \A q \in new : user' = NoUser /\ currentUser = q.who
    BY <2>3, <2>5, <2>6 DEF ShownAfter
  <2>9. user' \in {NoUser, currentUser}
    BY <2>3, <2>6 DEF ShownAfter
  <2> HIDE DEF new
  <2> QED
    BY <2>0, <2>2, <2>3, <2>7, <2>8, <2>9 DEF LoneInv, ShownIsSignedIn, Quiet
<1>7. CASE UNCHANGED authVars
  BY <1>7 DEF authVars, LoneInv, ShownIsSignedIn, Quiet
<1> QED
  BY <1>1, <1>2, <1>3, <1>4, <1>5, <1>6, <1>7 DEF Next, SignUp, SignIn, Lone

\* Chains that do not overlap leave the account shown and the account signed
\* in the same, or nobody shown (AuthenticationManager.swift).
THEOREM SignedIn == Spec => []ShownIsSignedIn
<1>1. Init => LoneInv
  BY DEF Init, LoneInv, ShownIsSignedIn
<1>2. LoneInv => ShownIsSignedIn
  BY DEF LoneInv, ShownIsSignedIn
<1> QED
  BY <1>1, <1>2, LoneStep, TypeInvariant, PTL DEF Spec
-----------------------------------------------------------------------------
(* Nothing is left waiting.  What ends the spinner, and what brings the     *)
(* network back, is under way as long as it is needed: the safety half of   *)
(* LoadingEnds and NetworkComesBack.                                        *)

\* A sign-up or sign-in that Firebase has not answered, or whose answer has
\* not been seen.
SigningUnderWay ==
  \/ \E r \in asked : r.op \in {"createUser", "signIn"}
  \/ \E i \in DOMAIN main : StopsLoading(main[i])

LoadingHasCause == isLoading => SigningUnderWay

\* saveUser disabled the network and has not heard of enabling it.
OfflineHasCause == ~online => stranded \/ \E r \in asked : r.op = "enableNetwork"

\* An answer ends one request, and what waits in the main queue stays there.
LEMMA AnswerLeaves ==
  ASSUME TypeOK, NEW r \in asked, Answer(r)
  PROVE  /\ \A q \in asked : q = r \/ q \in asked'
         /\ \A i \in DOMAIN main : i \in DOMAIN main' /\ main'[i] = main[i]
         /\ r.op \in {"createUser", "signIn"} =>
              \E i \in DOMAIN main' : StopsLoading(main'[i])
         /\ isLoading' = isLoading
<1> USE DEF Answered, Continues, Blocks, appVars
<1>1. CASE CreateUser(r)
  <2>1. PICK does \in {"created", "refused"} : Queue(r, does)
    BY <1>1 DEF CreateUser
  <2> QED
    BY <1>1, <2>1, QueueFacts DEF CreateUser, StopsLoading
<1>2. CASE SignInAnswered(r)
  <2>1. PICK does \in {"signedIn", "refused"} : Queue(r, does)
    BY <1>2 DEF SignInAnswered
  <2> QED
    BY <1>2, <2>1, QueueFacts DEF SignInAnswered, StopsLoading
<1>3. CASE GetDocument(r)
  BY <1>3, QueueFacts DEF GetDocument
<1>4. CASE DisableNetwork(r)
  BY <1>4 DEF DisableNetwork
<1>5. CASE EnableNetwork(r)
  BY <1>5, QueueFacts DEF EnableNetwork
<1> QED
  BY <1>1, <1>2, <1>3, <1>4, <1>5 DEF Answer

LEMMA LoadingStep ==
  ASSUME TypeOK, LoadingHasCause, [Next]_authVars
  PROVE  LoadingHasCause'
<1> USE DEF LoadingHasCause, SigningUnderWay, appVars, historyVars
<1>1. ASSUME NEW op \in {"createUser", "signIn"}, Press(op) PROVE LoadingHasCause'
  <2>1. PICK w \in Users : Ask(op, w)
    BY <1>1 DEF Press
  <2>2. [chain |-> chains', op |-> op, who |-> w] \in asked'
    BY <2>1 DEF Ask
  <2> QED
    BY <1>1, <2>2
<1>2. CASE SignOut
  <2> DEFINE b == [chain |-> chains', does |-> "signedOut", who |-> user]
  <2>1. b \in Block /\ main' = Append(main, b) /\ main \in Seq(Block)
    BY <1>2 DEF SignOut, Begin, TypeOK, Block, Blocks
  <2> HIDE DEF b
  <2>2. \A i \in DOMAIN main : i \in DOMAIN main' /\ main'[i] = main[i]
    BY <2>1, AppendFacts
  <2> QED
    BY <1>2, <2>2 DEF SignOut, StopsLoading
<1>3. CASE Launch
  BY <1>3 DEF Launch
<1>4. ASSUME NEW r \in asked, Answer(r) PROVE LoadingHasCause'
  BY <1>4, AnswerLeaves DEF StopsLoading
<1>5. ASSUME NEW w \in unsent, Acknowledge(w) PROVE LoadingHasCause'
  <2>1. CASE UNCHANGED <<asked, main>>
    BY <1>5, <2>1 DEF Acknowledge, StopsLoading
  <2>2. ASSUME NEW r \in asked, r.op = "setData", NEW kept \in BOOLEAN,
               Answered(r), Queue(r, IF kept THEN "saved" ELSE "failed")
        PROVE  LoadingHasCause'
    <3>1. (IF kept THEN "saved" ELSE "failed") \in Blocks
      BY DEF Blocks
    <3>2. \A i \in DOMAIN main : i \in DOMAIN main' /\ main'[i] = main[i]
      BY <2>2, <3>1, QueueFacts
    <3> QED
      BY <1>5, <2>2, <3>2 DEF Acknowledge, Answered, StopsLoading
  <2> QED
    BY <1>5, <2>1, <2>2 DEF Acknowledge
<1>6. CASE RunMain
  <2>1. /\ main # <<>> /\ main' = Tail(main) /\ Head(main) = main[1]
        /\ isLoading' => isLoading /\ ~StopsLoading(Head(main))
        /\ asked \subseteq asked'
    BY <1>6, TailFacts DEF RunMain, TypeOK
  <2>2. ASSUME NEW i \in DOMAIN main, i # 1
        PROVE  i - 1 \in DOMAIN main' /\ main'[i - 1] = main[i]
    BY <2>1, <2>2 DEF TypeOK
  <2>3. ASSUME isLoading', NEW i \in DOMAIN main, StopsLoading(main[i])
        PROVE  \E j \in DOMAIN main' : StopsLoading(main'[j])
    <3>1. i # 1
      BY <2>1, <2>3
    <3> QED
      BY <2>2, <2>3, <3>1
  <2> QED
    BY <2>1, <2>3 DEF StopsLoading
<1>7. CASE UNCHANGED authVars
  BY <1>7 DEF authVars, StopsLoading
<1> QED
  BY <1>1, <1>2, <1>3, <1>4, <1>5, <1>6, <1>7 DEF Next, SignUp, SignIn

LEMMA OfflineStep ==
  ASSUME TypeOK, OfflineHasCause, [Next]_authVars
  PROVE  OfflineHasCause'
<1> USE DEF OfflineHasCause, firebaseVars, historyVars
<1>1. ASSUME NEW op \in {"createUser", "signIn"}, Press(op) PROVE OfflineHasCause'
  BY <1>1 DEF Press, Ask
<1>2. CASE SignOut
  BY <1>2 DEF SignOut
<1>3. CASE Launch
  BY <1>3 DEF Launch
<1>4. ASSUME NEW r \in asked, Answer(r) PROVE OfflineHasCause'
  <2>1. \A q \in asked : q = r \/ q \in asked'
    BY <1>4, AnswerLeaves
  <2>2. CASE CreateUser(r) \/ SignInAnswered(r) \/ GetDocument(r)
    BY <2>1, <2>2 DEF CreateUser, SignInAnswered, GetDocument
  <2>3. CASE DisableNetwork(r)
    <3>1. CASE online' = FALSE /\ Continues(r, "enableNetwork")
      <4>1. [r EXCEPT !.op = "enableNetwork"].op = "enableNetwork"
        BY DEF TypeOK, Request
      <4> QED
        BY <3>1, <4>1 DEF Continues
    <3>2. CASE UNCHANGED online
      BY <2>1, <2>3, <3>2 DEF DisableNetwork
    <3> QED
      BY <2>3, <3>1, <3>2 DEF DisableNetwork
  <2>4. CASE EnableNetwork(r)
    BY <2>4 DEF EnableNetwork
  <2> QED
    BY <1>4, <2>2, <2>3, <2>4 DEF Answer
<1>5. ASSUME NEW w \in unsent, Acknowledge(w) PROVE OfflineHasCause'
  BY <1>5 DEF Acknowledge
<1>6. CASE RunMain
  BY <1>6 DEF RunMain
<1>7. CASE UNCHANGED authVars
  BY <1>7 DEF authVars
<1> QED
  BY <1>1, <1>2, <1>3, <1>4, <1>5, <1>6, <1>7 DEF Next, SignUp, SignIn

\* While the spinner turns, a sign-up or sign-in is under way that will stop
\* it, whatever else was pressed meanwhile, and however many of them were
\* stopped by another's answer (AuthenticationManager.swift: signUp, signIn).
THEOREM LoadingIsAwaited == Spec => []LoadingHasCause
<1>1. Init => LoadingHasCause
  BY DEF Init, LoadingHasCause
<1> QED
  BY <1>1, LoadingStep, TypeInvariant, PTL DEF Spec

\* While Firestore is offline, a saveUser is about to enable it again, unless
\* enabling failed: of two that overlap, the one that disabled it last has
\* its own enabling before it (FirestoreManager.swift: saveUser).
THEOREM OfflineIsAwaited == Spec => []OfflineHasCause
<1>1. Init => OfflineHasCause
  BY DEF Init, OfflineHasCause
<1> QED
  BY <1>1, OfflineStep, TypeInvariant, PTL DEF Spec
=============================================================================
