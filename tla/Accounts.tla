------------------------------ MODULE Accounts ------------------------------
(***************************************************************************)
(* The accounts at streaming services: connecting one through the browser  *)
(* (oauth-routes), the destinations that use it, and its refresh token in  *)
(* the vault. A service may answer a refresh with a new refresh token and  *)
(* forget the old one (Twitch); every destination that is open has read    *)
(* the token for itself.                                                   *)
(***************************************************************************)
EXTENDS Naturals, FiniteSets

CONSTANTS
  Channels,   \* at the service
  Clients,    \* the OAuth clients that were entered
  Flows,      \* authorizations under way, each known by its state
  Opened,     \* destinations that a run, the status page or the playlists page have open
  MaxTokens,  \* bound: refresh tokens ever issued
  MaxIds,     \* bound: accounts ever connected
  MaxTrouble  \* bound: answers that are lost, and restarts

AccountAssumption ==
  /\ MaxTokens \in Nat /\ MaxIds \in Nat /\ MaxTrouble \in Nat
  /\ Channels # {} /\ Clients # {}

VARIABLES
  flow,      \* [Flows -> how far it is, with which client, for which channel, and its token]
  account,   \* [Channels -> the id of its row, 0 for none]
  client,    \* [ids -> the client it was connected with]
  vault,     \* [ids -> the refresh token stored for it, 0 for none]
  ids,       \* the ids used so far
  uses,      \* the ids that a destination refers to
  open,      \* [Opened -> for which account, the token it holds, and what it is answered]
  issued,    \* refresh tokens issued so far
  good,      \* those that the service takes, each from the client it was issued to
  unlucky,   \* the ids for which an answer was lost
  trouble

accVars == <<flow, account, client, vault, ids, uses, open, issued, good, unlucky, trouble>>

Ids == 1..MaxIds
Tokens == 0..MaxTokens
SomeClient == CHOOSE c \in Clients : TRUE
NoFlow == [is |-> "none", client |-> SomeClient, of |-> CHOOSE c \in Channels : TRUE, token |-> 0]
Closed == [of |-> 0, client |-> SomeClient, holds |-> 0, answer |-> "none", new |-> 0]

AccTypeOK ==
  /\ flow \in [Flows -> [is : {"none", "pending", "asking", "granted"},
                         client : Clients, of : Channels, token : Tokens]]
  /\ account \in [Channels -> 0..MaxIds] /\ client \in [Ids -> Clients] /\ vault \in [Ids -> Tokens]
  /\ ids \in 0..MaxIds /\ uses \subseteq Ids /\ issued \in Tokens
  /\ good \subseteq Tokens \X Clients
  /\ open \in [Opened -> [of : 0..MaxIds, client : Clients, holds : Tokens,
                          answer : {"none", "new", "no"}, new : Tokens]]
  /\ unlucky \subseteq Ids /\ trouble \in 0..MaxTrouble

AccInit ==
  /\ flow = [f \in Flows |-> NoFlow] /\ account = [c \in Channels |-> 0]
  /\ client = [a \in Ids |-> SomeClient] /\ vault = [a \in Ids |-> 0] /\ ids = 0 /\ uses = {}
  /\ open = [o \in Opened |-> Closed] /\ issued = 0 /\ good = {} /\ unlucky = {} /\ trouble = 0

Rows == {account[c] : c \in Channels} \ {0}

-----------------------------------------------------------------------------
\* Connecting: /start, the redirect, and what the callback does with the code.

\* What is older than PENDING_TTL_MS is dropped when the next one starts.
Start(f, c) ==
  /\ flow[f].is = "none"
  /\ \E old \in SUBSET {g \in Flows : flow[g].is = "pending"} :
       flow' = [g \in Flows |-> IF g = f THEN [NoFlow EXCEPT !.is = "pending", !.client = c]
                                ELSE IF g \in old THEN NoFlow ELSE flow[g]]
  /\ UNCHANGED <<account, client, vault, ids, uses, open, issued, good, unlucky, trouble>>

\* The state is spent before its code is.
Callback(f, ch) ==
  /\ flow[f].is = "pending" /\ flow' = [flow EXCEPT ![f].is = "asking", ![f].of = ch]
  /\ UNCHANGED <<account, client, vault, ids, uses, open, issued, good, unlucky, trouble>>

\* The service grants it.
Grants(f) ==
  /\ flow[f].is = "asking" /\ issued < MaxTokens
  /\ issued' = issued + 1 /\ good' = good \cup {<<issued + 1, flow[f].client>>}
  /\ flow' = [flow EXCEPT ![f].is = "granted", ![f].token = issued + 1]
  /\ UNCHANGED <<account, client, vault, ids, uses, open, unlucky, trouble>>

\* A channel that is connected again keeps its row and gets the new token.
Row(ch) == IF account[ch] = 0 THEN ids + 1 ELSE account[ch]

Connects(f) ==
  LET g == flow[f] a == Row(g.of)
  IN /\ g.is = "granted" /\ a \in Ids /\ flow' = [flow EXCEPT ![f] = NoFlow]
     /\ account' = [account EXCEPT ![g.of] = a] /\ ids' = IF a > ids THEN a ELSE ids
     /\ client' = [client EXCEPT ![a] = g.client] /\ vault' = [vault EXCEPT ![a] = g.token]
     /\ unlucky' = unlucky \ {a} /\ UNCHANGED <<uses, open, issued, good, trouble>>

\* complete throws, the answer is lost, or the browser says that it was cancelled.
Fails(f) ==
  /\ flow[f].is \in {"pending", "asking", "granted"} /\ flow' = [flow EXCEPT ![f] = NoFlow]
  /\ UNCHANGED <<account, client, vault, ids, uses, open, issued, good, unlucky, trouble>>

-----------------------------------------------------------------------------
\* Destinations, and taking an account away.

AddDestination(a) ==
  /\ a \in Rows /\ uses' = uses \cup {a}
  /\ UNCHANGED <<flow, account, client, vault, ids, open, issued, good, unlucky, trouble>>

RemoveDestination(a) ==
  /\ a \in uses /\ uses' = uses \ {a}
  /\ UNCHANGED <<flow, account, client, vault, ids, open, issued, good, unlucky, trouble>>

\* Refused while a destination refers to it.
RemoveAccount(ch) ==
  LET a == account[ch]
  IN /\ a # 0 /\ a \notin uses
     /\ vault' = [vault EXCEPT ![a] = 0] /\ account' = [account EXCEPT ![ch] = 0]
     /\ UNCHANGED <<flow, client, ids, uses, open, issued, good, unlucky, trouble>>

-----------------------------------------------------------------------------
\* Destinations that are open.

\* resolveOAuthClient. The playlists are listed for an account without a destination.
Open(o, a) ==
  /\ open[o] = Closed /\ a \in Rows
  /\ open' = [open EXCEPT ![o] = [of |-> a, client |-> client[a], holds |-> vault[a],
                                  answer |-> "none", new |-> 0]]
  /\ UNCHANGED <<flow, account, client, vault, ids, uses, issued, good, unlucky, trouble>>

Dispose(o) ==
  /\ open[o] # Closed /\ open[o].answer = "none" /\ open' = [open EXCEPT ![o] = Closed]
  /\ UNCHANGED <<flow, account, client, vault, ids, uses, issued, good, unlucky, trouble>>

Asks(o) == open[o] # Closed /\ open[o].answer = "none"

Held(o) == <<open[o].holds, open[o].client>>

\* The service takes a token that is good, and may put another in its place.
Refreshed(o) ==
  /\ Asks(o) /\ Held(o) \in good
  /\ \/ /\ UNCHANGED <<issued, good>>
        /\ open' = [open EXCEPT ![o].answer = "new", ![o].new = open[o].holds]
     \/ /\ issued < MaxTokens /\ issued' = issued + 1
        /\ good' = (good \ {Held(o)}) \cup {<<issued + 1, open[o].client>>}
        /\ open' = [open EXCEPT ![o].answer = "new", ![o].new = issued + 1]
  /\ UNCHANGED <<flow, account, client, vault, ids, uses, unlucky, trouble>>

\* ReauthRequiredError.
Rejected(o) ==
  /\ Asks(o) /\ Held(o) \notin good /\ open' = [open EXCEPT ![o].answer = "no"]
  /\ UNCHANGED <<flow, account, client, vault, ids, uses, issued, good, unlucky, trouble>>

\* Mutant: only the instance remembers the new token.
KeptToItself(o) == FALSE

\* A token that is new is written back, onRotate.
WrittenBack(o) == open[o].new # open[o].holds

\* Mutant: the token is written without looking for the account.
AnyAccount(o) == TRUE

\* updateRefreshToken throws when there is no such account any more.
Known(o) == open[o].of \in Rows

Receives(o) ==
  /\ open[o].answer = "new"
  /\ vault' = IF WrittenBack(o) /\ Known(o) THEN [vault EXCEPT ![open[o].of] = open[o].new] ELSE vault
  /\ open' = [open EXCEPT ![o] = [@ EXCEPT !.holds = open[o].new, !.answer = "none", !.new = 0]]
  /\ UNCHANGED <<flow, account, client, ids, uses, issued, good, unlucky, trouble>>

GivesUp(o) ==
  /\ open[o].answer = "no" /\ open' = [open EXCEPT ![o] = Closed]
  /\ UNCHANGED <<flow, account, client, vault, ids, uses, issued, good, unlucky, trouble>>

\* The answer is lost, or the program stops before it has come.
Lost(os) == unlucky \cup {open[o].of : o \in {p \in os : open[p].answer = "new" /\ WrittenBack(p)}}

AnswerLost(o) ==
  /\ open[o].answer # "none" /\ trouble < MaxTrouble /\ trouble' = trouble + 1
  /\ unlucky' = Lost({o}) /\ open' = [open EXCEPT ![o] = Closed]
  /\ UNCHANGED <<flow, account, client, vault, ids, uses, issued, good>>

\* What is pending is kept in memory only.
Restart ==
  /\ trouble < MaxTrouble /\ trouble' = trouble + 1 /\ unlucky' = Lost(Opened)
  /\ flow' = [f \in Flows |-> NoFlow] /\ open' = [o \in Opened |-> Closed]
  /\ UNCHANGED <<account, client, vault, ids, uses, issued, good>>

AccNext ==
  \/ Restart
  \/ \E f \in Flows : \/ \E c \in Clients : Start(f, c)
                      \/ \E ch \in Channels : Callback(f, ch)
                      \/ Grants(f) \/ Connects(f) \/ Fails(f)
  \/ \E ch \in Channels : RemoveAccount(ch)
  \/ \E a \in Ids : AddDestination(a) \/ RemoveDestination(a)
  \/ \E o \in Opened : \/ \E a \in Ids : Open(o, a)
                       \/ Dispose(o) \/ Refreshed(o) \/ Rejected(o) \/ Receives(o) \/ GivesUp(o)
                       \/ AnswerLost(o)

AccSpec == AccInit /\ [][AccNext]_accVars

-----------------------------------------------------------------------------
\* However many destinations of an account are open and refresh it by turns, the token in the
\* vault is one the service takes, or the one that replaces it is on its way there; unless
\* that answer was lost (RefreshingTokenSource, updateRefreshToken). With one client: a refresh
\* under way while the channel is connected again with another client writes its own back.
NobodyLockedOut ==
  \A a \in Rows \ unlucky :
    <<vault[a], client[a]>> \in good \/ \E o \in Opened : open[o].of = a /\ open[o].answer = "new"

\* The vault keeps a token for each account that is connected and for no other: a refresh
\* that ends after its account was removed does not bring the token back.
NoStrayToken == \A a \in Ids : vault[a] # 0 <=> a \in Rows
=============================================================================
