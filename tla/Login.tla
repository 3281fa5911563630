------------------------------- MODULE Login -------------------------------
(***************************************************************************)
(* Signing in at the identity provider (src/idp/interactions.js). An       *)
(* interaction is a file that oidc-provider makes for one authorization    *)
(* request: it asks for a login or for consent. The tabs of one browser    *)
(* show its pages and send its forms; a handler reads the file, awaits the *)
(* accounts, writes the copy it holds back and lets oidc-provider finish   *)
(* the interaction. What oidc-provider does itself is external.            *)
(***************************************************************************)
EXTENDS Naturals, FiniteSets

CONSTANTS
  Tabs,
  Accounts,
  NoAccount,
  MaxFlows,     \* interactions that are begun
  MaxForms,     \* forms that are sent from the pages for a login and for consent
  MaxFaults     \* interactions that expire, cookies that are not sent

ASSUME LoginAssumption ==
  NoAccount \notin Accounts /\ {MaxFlows, MaxForms, MaxFaults} \subseteq Nat \ {0}

VARIABLES
  begun,       \* how many interactions there have been
  inter,       \* the file of each
  cookies,     \* those whose cookie the browser holds
  session,     \* the account of oidc-provider's session
  settled,     \* accounts with a passkey, or that do not want one
  tab,         \* what each tab shows, and how far the request is that it has sent
  switched,    \* history: flows turned back to the login while nobody else wrote them
  forms,       \* how many forms have been sent
  faults

loginVars == <<begun, inter, cookies, session, settled, tab, switched, forms, faults>>

Flows == 1..MaxFlows
Somebody == Accounts \cup {NoAccount}
Results == {r \in [by : {"none", "login", "prompt", "consent", "denied"}, account : Somebody] :
              r.by = "prompt" => r.account \in Accounts}
NoResult == [by |-> "none", account |-> NoAccount]
Interaction == [live : BOOLEAN, prompt : {"login", "consent"}, session : Somebody,
                result : Results, error : BOOLEAN]
Gone ==
  [live |-> FALSE, prompt |-> "login", session |-> NoAccount, result |-> NoResult, error |-> FALSE]

Pages == {"blank", "login", "loginError", "consent", "passkey", "signed", "error", "done"}
Kinds == {"none", "login", "json", "schnorr", "schnorrComplete", "passkeyComplete",
          "passkeySkip", "confirm", "switch", "abort"}
TabSteps == {"idle", "find", "account", "save", "finish", "resume", "hung"}
Tab == [page : Pages, flow : Flows, kind : Kinds, who : Somebody, right : BOOLEAN,
        at : TabSteps, copy : Interaction, next : Pages \cup {"open", "finish"}]

LoginTypeOK ==
  /\ begun \in 0..MaxFlows
  /\ inter \in [Flows -> Interaction]
  /\ cookies \in SUBSET Flows
  /\ session \in Somebody
  /\ settled \in SUBSET Accounts
  /\ tab \in [Tabs -> Tab]
  /\ switched \in SUBSET Flows
  /\ forms \in 0..MaxForms /\ faults \in 0..MaxFaults

LoginInit ==
  /\ begun = 0 /\ forms = 0 /\ faults = 0 /\ cookies = {} /\ session \in Somebody /\ switched = {}
  /\ settled \in SUBSET Accounts
  /\ inter = [f \in Flows |-> Gone]
  /\ tab = [t \in Tabs |-> [page |-> "blank", flow |-> 1, kind |-> "none", who |-> NoAccount,
                            right |-> FALSE, at |-> "idle", copy |-> Gone, next |-> "blank"]]
-----------------------------------------------------------------------------
Flow(t) == tab[t].flow
Copy(t) == tab[t].copy
Kind(t) == tab[t].kind
Who(t) == tab[t].who

With(r, changes) == [x \in DOMAIN r |-> IF x \in DOMAIN changes THEN changes[x] ELSE r[x]]
Now(t, changes) == tab' = [tab EXCEPT ![t] = With(tab[t], changes)]

\* A request is over: the tab shows what it was sent. Two pages know the account.
Shows(t, page) ==
  Now(t, [page |-> page, at |-> "idle", copy |-> Gone, next |-> "blank", kind |-> "none", right |-> FALSE,
          who |-> IF page \in {"passkey", "signed"} THEN Who(t) ELSE NoAccount])

\* handleInteractionGet, when the browser opens an interaction or is sent back to it.
Page(i) ==
  CASE ~ i.live -> "error"
    [] i.live /\ i.prompt = "consent" -> "consent"
    [] i.live /\ i.prompt = "login" -> IF i.error THEN "loginError" ELSE "login"

NewInteraction(prompt, account) ==
  [Gone EXCEPT !.live = TRUE, !.prompt = prompt, !.session = account]

Opens(t, f, i) ==
  Now(t, [page |-> Page(i), flow |-> f, kind |-> "none", who |-> NoAccount, right |-> FALSE,
          at |-> "idle", copy |-> Gone, next |-> "blank"])

\* External, GET /idp/auth: somebody who is not signed in is asked to, and one who is
\* when the application wants consent (loadExistingGrant has made the grant otherwise).
BeginFlow(t) ==
  /\ tab[t].at = "idle" /\ begun < MaxFlows
  /\ begun' = begun + 1
  /\ inter' = [inter EXCEPT ![begun + 1] =
                 NewInteraction(IF session = NoAccount THEN "login" ELSE "consent", session)]
  /\ cookies' = cookies \cup {begun + 1}
  /\ Opens(t, begun + 1, inter'[begun + 1])
  /\ UNCHANGED <<session, settled, switched, forms, faults>>

FormsOf(kinds, accounts, rights) == [kind : kinds, who : accounts, right : rights]

\* What the page of a tab can send. The account is what was typed, or what the page
\* knows; `right` says that its proof holds and, once it was proved, that it still exists.
Offered(t) ==
  CASE tab[t].page \in {"login", "loginError"} ->
         FormsOf({"login", "json", "schnorr"}, Accounts, {TRUE})
           \cup FormsOf({"login", "json", "schnorr"}, {NoAccount}, {FALSE})
           \cup FormsOf({"passkeyComplete"}, Accounts, BOOLEAN) \cup FormsOf({"abort"}, {NoAccount}, {TRUE})
    [] tab[t].page = "consent" -> FormsOf({"confirm", "switch", "abort"}, {NoAccount}, {TRUE})
    [] tab[t].page = "passkey" ->
         FormsOf({"passkeyComplete"}, {Who(t)}, BOOLEAN) \cup FormsOf({"passkeySkip"}, {NoAccount}, {TRUE})
    [] tab[t].page = "signed" -> FormsOf({"schnorrComplete"}, {Who(t)}, BOOLEAN)
    [] OTHER -> {}

\* The page is opened in this tab, by its address or again, or sends a form.
Send(t) ==
  /\ tab[t].at = "idle" /\ begun > 0
  /\ \/ (\E f \in 1..begun : Opens(t, f, inter[f])) /\ UNCHANGED forms
     \/ \E form \in Offered(t) :
          /\ IF tab[t].page \in {"passkey", "signed"} THEN UNCHANGED forms
             ELSE forms < MaxForms /\ forms' = forms + 1
          /\ Now(t, [kind |-> form.kind, who |-> form.who, right |-> form.right,
                     at |-> IF form.kind = "abort" THEN "finish" ELSE "find",
                     copy |-> IF form.kind = "abort" THEN [Gone EXCEPT !.result.by = "denied"] ELSE Copy(t)])
  /\ UNCHANGED <<begun, inter, cookies, session, settled, switched, faults>>

\* Variant: whoever the answer names, the interaction is finished.
MatchesAny(t, i) == TRUE

\* The tests of handleConsent, handleSwitchAccount, handlePasskeyComplete,
\* handlePasskeySkip and handleSchnorrComplete on the interaction they found.
Matches(t, i) ==
  /\ Kind(t) \in {"confirm", "switch"} => i.prompt = "consent"
  /\ Kind(t) = "passkeyComplete" /\ i.result.by = "prompt" => i.result.account = Who(t)
  /\ Kind(t) = "passkeySkip" => i.result.by = "prompt"
  /\ Kind(t) = "schnorrComplete" => i.result.account = Who(t)

\* provider.Interaction.find.
Find(t) ==
  /\ tab[t].at = "find"
  /\ LET i == inter[Flow(t)] IN
       \/ ~ i.live /\ Shows(t, "error")
       \/ i.live /\ ~ Matches(t, i) /\ Shows(t, "error")
       \/ i.live /\ Matches(t, i) /\ Now(t, [at |-> "account", copy |-> i])
  /\ UNCHANGED <<begun, inter, cookies, session, settled, switched, forms, faults>>

\* The copy, and where it goes.
Keep(t, by, account, next) ==
  Now(t, [at |-> "save", next |-> next,
          copy |-> [Copy(t) EXCEPT !.result = [by |-> by, account |-> account]]])
Complete(t, by, account) ==
  Now(t, [at |-> "finish", copy |-> [Copy(t) EXCEPT !.result = [by |-> by, account |-> account]]])

\* Variant: the answer of an earlier identity is kept.
TurnedBackHalf(i) == [i EXCEPT !.prompt = "login", !.session = NoAccount, !.error = FALSE]

TurnedBack(i) ==
  [i EXCEPT !.prompt = "login", !.session = NoAccount, !.result = NoResult, !.error = FALSE]

\* handleLogin after authenticate and findById; without a name or a password it does
\* not ask, and answers the same.
LoginChecked(t) ==
  /\ tab[t].at = "account" /\ Kind(t) \in {"login", "json"}
  /\ \/ /\ ~ tab[t].right
        /\ Now(t, [at |-> "save", next |-> "open", copy |-> [Copy(t) EXCEPT !.error = TRUE]])
     \/ /\ tab[t].right /\ Kind(t) = "login" /\ Who(t) \notin settled
        /\ Keep(t, "prompt", Who(t), "passkey")
     \/ /\ tab[t].right /\ (Kind(t) = "login" => Who(t) \in settled)
        /\ Keep(t, "login", Who(t), "finish")
  /\ UNCHANGED <<begun, inter, cookies, session, settled, switched, forms, faults>>

\* handleSchnorrLogin after verifyNostrAuth and the search for the account.
SchnorrChecked(t) ==
  /\ tab[t].at = "account" /\ Kind(t) = "schnorr"
  /\ \/ ~ tab[t].right /\ Shows(t, "login")
     \/ tab[t].right /\ Keep(t, "login", Who(t), "signed")
  /\ UNCHANGED <<begun, inter, cookies, session, settled, switched, forms, faults>>

\* The three that finish what was begun elsewhere; `right` says that the account is
\* still there. The tab that comes from the offer of a passkey has registered one.
CompletionChecked(t) ==
  /\ tab[t].at = "account" /\ Kind(t) \in {"passkeyComplete", "passkeySkip", "schnorrComplete"}
  /\ \/ Kind(t) # "passkeySkip" /\ ~ tab[t].right /\ Shows(t, "error") /\ UNCHANGED settled
     \/ /\ Kind(t) = "passkeyComplete" /\ tab[t].right /\ Complete(t, "login", Who(t))
        /\ settled' = settled \cup {Who(t)}
     \/ /\ Kind(t) = "passkeySkip" /\ Now(t, [at |-> "finish"])
        /\ settled' = settled \cup {Copy(t).result.account}
     \/ Kind(t) = "schnorrComplete" /\ tab[t].right /\ Now(t, [at |-> "finish"]) /\ UNCHANGED settled
  /\ UNCHANGED <<begun, inter, cookies, session, switched, forms, faults>>

\* handleConsent saves the grant; handleSwitchAccount destroys the session.
ConsentChecked(t) ==
  /\ tab[t].at = "account"
  /\ \/ Kind(t) = "confirm" /\ Complete(t, "consent", Copy(t).session) /\ UNCHANGED session
     \/ /\ Kind(t) = "switch"
        /\ session' = IF Copy(t).session # NoAccount THEN NoAccount ELSE session
        /\ Now(t, [at |-> "save", next |-> "open", copy |-> TurnedBack(Copy(t))])
  /\ UNCHANGED <<begun, inter, cookies, settled, switched, forms, faults>>

\* Nobody but t is about to write the interaction.
AloneAt(t) ==
  \A o \in Tabs \ {t} : Flow(o) = Flow(t) => tab[o].at \in {"idle", "find", "resume", "hung"}

\* interaction.save: the adapter writes the copy, whether the file is still there or not.
SaveInteraction(t) ==
  /\ tab[t].at = "save"
  /\ inter' = [inter EXCEPT ![Flow(t)] = Copy(t)]
  /\ switched' = IF Kind(t) = "switch" /\ AloneAt(t) THEN switched \cup {Flow(t)}
                 ELSE switched \ {Flow(t)}
  /\ CASE tab[t].next = "open" -> Opens(t, Flow(t), Copy(t))
       [] tab[t].next = "finish" -> Now(t, [at |-> "finish"])
       [] OTHER -> Shows(t, tab[t].next)
  /\ UNCHANGED <<begun, cookies, session, settled, forms, faults>>

\* Variant: nobody catches what interactionFinished throws.
AnswerHangs(t) == Now(t, [at |-> "hung"])

\* finishInteractionDefensively writes an error page on the socket itself. handleLogin's
\* own catch, for the programs that want JSON, uses the reply that was given up before:
\* Fastify sends nothing.
AnswerFailure(t) == IF Kind(t) = "json" THEN Now(t, [at |-> "hung"]) ELSE Shows(t, "error")

\* External, what interactionFinished wants: the cookie, the file, and the session
\* the interaction was made for.
Finishable(t) ==
  LET i == inter[Flow(t)] IN
    Flow(t) \in cookies /\ i.live /\ (i.session # NoAccount => session = i.session)

\* It throws SessionNotFound without, and may fail otherwise; else it saves the result
\* and sends the browser back to the authorization.
FinishInteraction(t) ==
  /\ tab[t].at = "finish"
  /\ \/ AnswerFailure(t) /\ UNCHANGED <<inter, switched>>
     \/ /\ Finishable(t)
        /\ inter' = [inter EXCEPT ![Flow(t)].result = Copy(t).result]
        /\ switched' = switched \ {Flow(t)}
        /\ Now(t, [at |-> "resume", copy |-> Gone])
  /\ UNCHANGED <<begun, cookies, session, settled, forms, faults>>

\* External, GET /idp/auth/:uid: the result is used up. An application may then ask for
\* consent, in an interaction of its own.
Resume(t) ==
  /\ tab[t].at = "resume"
  /\ LET i == inter[Flow(t)]
         signsIn == i.live /\ i.result.by \in {"login", "prompt"} IN
       \/ ~ i.live /\ Shows(t, "error") /\ UNCHANGED <<begun, inter, cookies, session>>
       \/ /\ i.live /\ i.result.by = "none" /\ Opens(t, Flow(t), i)
          /\ UNCHANGED <<begun, inter, cookies, session>>
       \/ /\ i.live /\ i.result.by # "none" /\ Shows(t, "done")
          /\ inter' = [inter EXCEPT ![Flow(t)] = Gone]
          /\ session' = IF signsIn THEN i.result.account ELSE session
          /\ UNCHANGED <<begun, cookies>>
       \/ /\ signsIn /\ begun < MaxFlows
          /\ begun' = begun + 1
          /\ inter' = [inter EXCEPT ![Flow(t)] = Gone,
                                    ![begun + 1] = NewInteraction("consent", i.result.account)]
          /\ cookies' = cookies \cup {begun + 1}
          /\ session' = i.result.account
          /\ Opens(t, begun + 1, inter'[begun + 1])
  /\ switched' = switched \ {Flow(t)}
  /\ UNCHANGED <<settled, forms, faults>>

\* External: an hour has passed, or the cookie is not sent.
ExpireFlow(f) ==
  /\ inter[f].live /\ inter' = [inter EXCEPT ![f] = Gone]
  /\ switched' = switched \ {f}
  /\ faults < MaxFaults /\ faults' = faults + 1
  /\ UNCHANGED <<begun, cookies, session, settled, tab, forms>>
LoseCookie(f) ==
  /\ f \in cookies /\ cookies' = cookies \ {f}
  /\ faults < MaxFaults /\ faults' = faults + 1
  /\ UNCHANGED <<begun, inter, session, settled, tab, switched, forms>>

TabStep(t) ==
  \/ Find(t) \/ LoginChecked(t) \/ SchnorrChecked(t) \/ CompletionChecked(t)
  \/ ConsentChecked(t) \/ SaveInteraction(t) \/ FinishInteraction(t) \/ Resume(t)

LoginNext ==
  \/ \E t \in Tabs : BeginFlow(t) \/ Send(t) \/ TabStep(t)
  \/ \E f \in Flows : ExpireFlow(f) \/ LoseCookie(f)

\* The event loop runs what a handler has awaited; nobody has to send a request.
LoginFairness == \A t \in Tabs : WF_loginVars(TabStep(t))

LoginSpec == LoginInit /\ [][LoginNext]_loginVars /\ LoginFairness
-----------------------------------------------------------------------------
\* A request of a page is answered, whether the interaction, its cookie or the session
\* are there or not and whatever oidc-provider throws after the reply was given up.
PagesAnswered ==
  \A t \in Tabs : (tab[t].at # "idle" /\ Kind(t) # "json") ~> (tab[t].at = "idle" \/ Kind(t) = "json")

\* "Fallback: return the redirect URL for manual following": a program that signs in
\* is answered too.
ProgramsAnswered == \A t \in Tabs : (Kind(t) = "json") ~> (tab[t].at = "idle")

\* "Sign in as a different user" starts cold: until somebody answers the interaction
\* again it asks for a login, belongs to no session and holds no answer of whoever was
\* signed in, unless another tab was writing it at the time.
SwitchedCold ==
  \A f \in switched : inter[f].prompt = "login" /\ inter[f].session = NoAccount
                      /\ inter[f].result = NoResult

\* A tab that finishes the login it has proved, by a password, a passkey or a
\* signature, leaves the answer that names this account, whatever the other tab has
\* written meanwhile.
OwnAccount ==
  [][\A t \in Tabs :
       tab[t].at = "finish" /\ tab'[t].at = "resume"
         /\ Kind(t) \in {"login", "json", "passkeyComplete", "schnorrComplete"}
       => inter'[Flow(t)].result.account = Who(t)]_loginVars

\* A browser that has switched accounts is not logged in by what it did before.
LoginSafe == LoginTypeOK /\ SwitchedCold
=============================================================================
