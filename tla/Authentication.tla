--------------------------- MODULE Authentication ---------------------------
(***************************************************************************)
(* Signing up, in and out (AuthenticationManager.swift and, below it,      *)
(* FirestoreManager.swift).  Every press of a button is a chain of         *)
(* requests to Firebase, each answered some time later by a block on the   *)
(* main queue, which continues the chain or ends it.  No button waits for  *)
(* a chain to end, so chains overlap; and Firebase keeps the signed-in     *)
(* account itself, over launches, apart from the user the app shows.       *)
(***************************************************************************)
EXTENDS Naturals, Sequences

CONSTANTS
  Users,         \* accounts, each with its profile
  NoUser,
  MaxChains      \* bound: chains begun

ASSUME UsersAssumption == NoUser \notin Users
ASSUME ChainsAssumption == MaxChains \in Nat

Ops == {"createUser", "signIn", "getDocument", "disableNetwork", "enableNetwork", "setData"}
Request == [chain: 1..MaxChains, op: Ops, who: Users]

Blocks == {"created", "signedIn", "refused", "saved", "fetched", "failed", "signedOut"}
Block == [chain: 1..MaxChains, does: Blocks, who: Users]

VARIABLES
  accounts,      \* Firebase Auth: the accounts there are
  currentUser,   \* Firebase Auth on the phone: the account signed in
  profiles,      \* Firestore: the users saved
  unsent,        \* Firestore on the phone: users written, not acknowledged
  online,        \* Firestore on the phone: its network is enabled
  user,          \* the user the app shows as logged in
  isLoading,
  asked,         \* requests not answered yet
  main,          \* the main queue
  chains,        \* chains begun
  overlapped,    \* history: a chain began before the one before it had ended
  stranded       \* history: enableNetwork failed

firebaseVars == <<accounts, currentUser, profiles, unsent, online>>
appVars == <<user, isLoading>>
historyVars == <<overlapped, stranded>>
authVars == <<firebaseVars, appVars, asked, main, chains, historyVars>>

\* Each chain is in one place: a request, or a block of the main queue.
Placed ==
  /\ \A r \in asked : r.chain <= chains
  /\ \A r, q \in asked : r.chain = q.chain => r = q
  /\ \A i \in DOMAIN main : main[i].chain <= chains
  /\ \A i \in DOMAIN main, r \in asked : main[i].chain # r.chain
  /\ \A i, j \in DOMAIN main : main[i].chain = main[j].chain => i = j

TypeOK ==
  /\ accounts \subseteq Users
  /\ currentUser \in Users \cup {NoUser}
  /\ profiles \subseteq Users
  /\ unsent \subseteq Users
  /\ online \in BOOLEAN
  /\ user \in Users \cup {NoUser}
  /\ isLoading \in BOOLEAN
  /\ asked \subseteq Request
  /\ main \in Seq(Block)
  /\ chains \in 0..MaxChains
  /\ Placed
  /\ overlapped \in BOOLEAN
  /\ stranded \in BOOLEAN

\* The app on a new phone; accounts may have been made on another.
Init ==
  /\ accounts \in SUBSET Users /\ profiles \in SUBSET accounts
  /\ currentUser = NoUser /\ unsent = {} /\ online = TRUE
  /\ user = NoUser /\ isLoading = FALSE
  /\ asked = {} /\ main = <<>> /\ chains = 0
  /\ overlapped = FALSE /\ stranded = FALSE

Quiet == asked = {} /\ main = <<>>
-----------------------------------------------------------------------------
(* The buttons and the launch of the app.                                   *)

Begin == chains < MaxChains /\ chains' = chains + 1

Ask(op, w) == asked' = asked \cup {[chain |-> chains', op |-> op, who |-> w]}

\* History: a chain begun while nobody is shown and nothing is under way is
\* alone until another begins.
NoteOverlap == overlapped' = (~Quiet \/ (overlapped /\ user # NoUser))

\* The buttons of AuthenticationView and SignUpView, shown while user is nil.
Press(op) ==
  /\ user = NoUser
  /\ Begin
  /\ \E w \in Users : Ask(op, w)
  /\ isLoading' = TRUE
  /\ NoteOverlap
  /\ UNCHANGED <<firebaseVars, user, main, stranded>>

SignUp == Press("createUser")
SignIn == Press("signIn")

\* Firebase signs out at once; the app's user goes with a block of its own.
\* When Firebase throws, only an error text is set.
SignOut ==
  /\ user # NoUser
  /\ Begin
  /\ currentUser' = NoUser
  /\ main' = Append(main, [chain |-> chains', does |-> "signedOut", who |-> user])
  /\ NoteOverlap
  /\ UNCHANGED <<accounts, profiles, unsent, online, appVars, asked, stranded>>

\* The process ends and is launched again: Firebase remembers the account and
\* the unsent writes, and the app asks for the profile of that account.
Launch ==
  /\ online' = TRUE
  /\ user' = NoUser
  /\ isLoading' = FALSE
  /\ main' = <<>>
  /\ overlapped' = FALSE
  /\ stranded' = FALSE
  /\ \/ currentUser = NoUser /\ asked' = {} /\ UNCHANGED chains
     \/ /\ currentUser # NoUser
        /\ Begin
        /\ asked' = {[chain |-> chains', op |-> "getDocument", who |-> currentUser]}
  /\ UNCHANGED <<accounts, currentUser, profiles, unsent>>
-----------------------------------------------------------------------------
(* The answers of Firebase.                                                 *)

Answered(r) == asked' = asked \ {r}

\* Mutant: the completion is called twice.
ContinuesTwice(r, op) == asked' = asked \cup {[r EXCEPT !.op = op]}

Continues(r, op) == asked' = (asked \ {r}) \cup {[r EXCEPT !.op = op]}

Queue(r, does) ==
  main' = Append(main, [chain |-> r.chain, does |-> does, who |-> r.who])

\* An account that was created is signed in.  The answer may be lost.
CreateUser(r) ==
  /\ r.op = "createUser"
  /\ Answered(r)
  /\ \/ /\ r.who \notin accounts
        /\ accounts' = accounts \cup {r.who}
        /\ \/ currentUser' = r.who /\ Queue(r, "created")
           \/ UNCHANGED currentUser /\ Queue(r, "refused")
     \/ UNCHANGED <<accounts, currentUser>> /\ Queue(r, "refused")
  /\ UNCHANGED <<profiles, unsent, online, appVars, chains, historyVars>>

SignInAnswered(r) ==
  /\ r.op = "signIn"
  /\ Answered(r)
  /\ \/ r.who \in accounts /\ currentUser' = r.who /\ Queue(r, "signedIn")
     \/ UNCHANGED currentUser /\ Queue(r, "refused")
  /\ UNCHANGED <<accounts, profiles, unsent, online, appVars, chains, historyVars>>

\* saveUser: the network of Firestore is disabled and enabled "before
\* writing".  When it cannot be disabled the chain ends without a word.
DisableNetwork(r) ==
  /\ r.op = "disableNetwork"
  /\ \/ online' = FALSE /\ Continues(r, "enableNetwork")
     \/ UNCHANGED online /\ Answered(r)
  /\ UNCHANGED <<accounts, currentUser, profiles, unsent, appVars, main, chains, historyVars>>

\* Mutant: the user is written without waiting for the network.
WriteAtOnce(r) ==
  /\ r.op = "enableNetwork"
  /\ Continues(r, "setData")
  /\ unsent' = unsent \cup {r.who}
  /\ UNCHANGED <<accounts, currentUser, profiles, online, appVars, main, chains, historyVars>>

EnableNetwork(r) ==
  /\ r.op = "enableNetwork"
  /\ \/ /\ online' = TRUE
        /\ Continues(r, "setData")
        /\ unsent' = unsent \cup {r.who}
        /\ UNCHANGED <<main, stranded>>
     \/ /\ Answered(r)
        /\ Queue(r, "failed")
        /\ stranded' = TRUE
        /\ UNCHANGED <<online, unsent>>
  /\ UNCHANGED <<accounts, currentUser, profiles, appVars, chains, overlapped>>

\* A write is acknowledged or rejected only while Firestore is online; it is
\* on the phone until then, also when the chain that wrote it is gone.
Acknowledge(w) ==
  /\ w \in unsent
  /\ online
  /\ unsent' = unsent \ {w}
  /\ \E kept \in BOOLEAN :
       /\ profiles' = IF kept THEN profiles \cup {w} ELSE profiles
       /\ \/ \E r \in asked :
               /\ r.op = "setData" /\ r.who = w
               /\ Answered(r)
               /\ Queue(r, IF kept THEN "saved" ELSE "failed")
          \/ /\ \A r \in asked : ~(r.op = "setData" /\ r.who = w)
             /\ UNCHANGED <<asked, main>>
  /\ UNCHANGED <<accounts, currentUser, online, appVars, chains, historyVars>>

\* The profile comes from the server, or from the phone.
GetDocument(r) ==
  /\ r.op = "getDocument"
  /\ Answered(r)
  /\ \/ r.who \in profiles \cup unsent /\ Queue(r, "fetched")
     \/ Queue(r, "failed")
  /\ UNCHANGED <<firebaseVars, appVars, chains, historyVars>>
-----------------------------------------------------------------------------
(* The blocks on the main queue.                                            *)

\* Mutant: only a chain that went well ends the spinner.
StopsLoadingWell(b) == b.does \in {"created", "signedIn"}

StopsLoading(b) == b.does \in {"created", "signedIn", "refused"}

\* Mutant: an error is noted and the chain goes on.
FollowsAnyway(b) == {op \in Ops :
  \/ b.does \in {"created", "refused"} /\ op = "disableNetwork"
  \/ b.does = "signedIn" /\ op = "getDocument"}

\* What a block asks of Firebase next, if anything.
Follows(b) == {op \in Ops :
  \/ b.does = "created" /\ op = "disableNetwork"
  \/ b.does = "signedIn" /\ op = "getDocument"}

\* Mutant: signing out leaves the user to the next launch.
ShownForgetful(b) == IF b.does \in {"saved", "fetched"} THEN b.who ELSE user

ShownAfter(b) ==
  CASE b.does \in {"saved", "fetched"} -> b.who
    [] b.does = "signedOut" -> NoUser
    [] OTHER -> user

RunMain ==
  /\ main # <<>>
  /\ main' = Tail(main)
  /\ LET b == Head(main)
     IN  /\ isLoading' = (isLoading /\ ~StopsLoading(b))
         /\ user' = ShownAfter(b)
         /\ asked' = asked \cup {[chain |-> b.chain, op |-> op, who |-> b.who] : op \in Follows(b)}
  /\ UNCHANGED <<firebaseVars, chains, historyVars>>
-----------------------------------------------------------------------------
Answer(r) ==
  \/ CreateUser(r) \/ SignInAnswered(r) \/ GetDocument(r)
  \/ DisableNetwork(r) \/ EnableNetwork(r)

Next ==
  \/ SignUp \/ SignIn \/ SignOut \/ Launch
  \/ \E r \in asked : Answer(r)
  \/ \E w \in unsent : Acknowledge(w)
  \/ RunMain

Spec == Init /\ [][Next]_authVars

\* The main queue runs its blocks, and Firebase answers, well or with an
\* error (its requests time out); only a write may wait for ever.
AnswerIn(chain) == \E r \in asked : r.chain = chain /\ Answer(r)

Fairness ==
  /\ WF_authVars(RunMain)
  /\ \A chain \in 1..MaxChains : WF_authVars(AnswerIn(chain))

FairSpec == Spec /\ Fairness
-----------------------------------------------------------------------------
\* When nothing is under way and no two chains overlapped, the user shown as
\* logged in is the account signed in, or nobody is shown: a sign-out leaves
\* nobody behind, and a failed save or fetch shows nobody.
ShownIsSignedIn == (Quiet /\ ~overlapped) => user \in {NoUser, currentUser}

\* Nothing is saved for, and nobody shown as, an account that does not exist:
\* a refused sign-up or sign-in ends its chain.
ProfilesHaveAccounts ==
  profiles \cup unsent \cup ({user} \ {NoUser}) \subseteq accounts

\* The spinner of a sign-up or sign-in ends, whatever Firebase answers and
\* whatever else is pressed meanwhile.
LoadingEnds == isLoading ~> ~isLoading

\* saveUser leaves Firestore online, also when two of them overlap, unless
\* enabling the network failed.
NetworkComesBack == ~online ~> (online \/ stranded)
=============================================================================
