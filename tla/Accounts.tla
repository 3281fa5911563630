------------------------------ MODULE Accounts ------------------------------
(***************************************************************************)
(* The accounts of the identity provider (src/idp/accounts.js) and the     *)
(* handlers that use them (src/idp/credentials.js): one JSON file for each *)
(* account and four index files, by user name, by email, by WebID and by   *)
(* passkey. No operation takes a lock, and each is a sequence of reads and *)
(* writes of whole files with an await between any two.                    *)
(*                                                                         *)
(* An operation is written as the sequence of its steps, in the order of   *)
(* the code; an action takes the first step of an operation under way. To  *)
(* write a file empties it first: until the write is done another          *)
(* operation may find it empty, and a write that fails, or that a crash    *)
(* cuts short, leaves it so (`torn`). Who reads such a file throws. The    *)
(* hash of a password is the password.                                     *)
(***************************************************************************)
EXTENDS Naturals, Sequences, FiniteSets

CONSTANTS
  Tasks,         \* requests
  FirstId,       \* the id of an account that is there from the start
  NoId,
  AccountForms,  \* [username, email, webid, pod]: what accounts are asked for with
  Passwords,
  Passkeys,
  MaxMishaps

ASSUME AccountsAssumption ==
  NoId \notin Tasks \cup {FirstId} /\ FirstId \notin Tasks /\ MaxMishaps \in Nat

VARIABLES
  files,    \* the account files, as they were last written whole
  index,    \* the index files, as they were last written whole: pairs of a key and an id
  podOf,    \* the account that each pod was made for, or NoId
  task,     \* the operations
  torn,     \* the files that a write has left empty or half written
  mishaps,   \* how often the server has died, or a write has failed
  failed,   \* history: accounts whose making or deletion threw with their file there
  raced     \* history: a step has acted on something that was no longer so, or on an
            \* account that some operation has left, or is yet to put, in part of the indexes

accountVars == <<files, index, podOf, task, torn, mishaps, failed, raced>>

Ids == Tasks \cup {FirstId}     \* randomUUID: the account that a task makes has its name
Indexes == {"username", "email", "webid", "passkey"}
FormKeys == {"username", "email", "webid"}
Pods == {f.pod : f \in AccountForms}

NoFile == [id |-> NoId]
Account(i, f, w, k) == [id |-> i, form |-> f, password |-> w, passkeys |-> k]
AccountFiles ==
  {Account(i, f, w, k) :
     i \in Ids, f \in AccountForms, w \in Passwords, k \in SUBSET Passkeys}

Idle == [op |-> "idle", todo |-> <<>>, account |-> NoFile, copy |-> {}]

AccountsInit ==
  \E f \in AccountForms, w \in Passwords :
    /\ files = [i \in Ids |-> IF i = FirstId THEN Account(i, f, w, {}) ELSE NoFile]
    /\ index = [x \in Indexes |-> IF x = "passkey" THEN {} ELSE {<<f[x], FirstId>>}]
    /\ podOf = [q \in Pods |-> IF q = f.pod THEN FirstId ELSE NoId]
    /\ task = [t \in Tasks |-> Idle]
    /\ torn = {} /\ mishaps = 0
    /\ failed = {} /\ raced = FALSE
-----------------------------------------------------------------------------
(* The operations. A step is a pair of what is done and what it is done on. *)

\* findByUsername, findByEmail, findByWebId, findByCredentialId.
FindBy(x) == <<<<"load", x>>, <<"find", x>>>>

\* A name that createAccount looks for and hopes not to find.
Absent(x) == <<<<"load", x>>, <<"absent", x>>>>

\* An index that is loaded, changed and saved.
Enter(x) == <<<<"load", x>>, <<"enter", x>>>>
Leave(x) == <<<<"load", x>>, <<"leave", x>>>>

CreateAccount ==
  Absent("username") \o Absent("email") \o Absent("webid")
  \o <<<<"put", "file">>>> \o Enter("username") \o Enter("email") \o Enter("webid")

\* The pod is made before the account (src/handlers/container.js).
Register == <<<<"makePod", "pod">>>> \o CreateAccount

\* authenticate, by user name or else by email; the account is written back.
Authenticate == FindBy("username") \o <<<<"verify", "password">>, <<"write", "login">>>>
ByEmail == FindBy("email") \o <<<<"verify", "password">>, <<"write", "login">>>>

UpdatePassword == <<<<"again", "fail">>, <<"write", "change">>>>

HandleChangePassword ==
  FindBy("webid") \o <<<<"verify", "password">>>> \o UpdatePassword

\* Variant: the file goes first.
DeleteAccountFileFirst ==
  <<<<"again", "purge">>, <<"remove", "file">>>>
  \o Leave("username") \o Leave("email") \o Leave("webid")

\* The index of passkeys is left alone.
DeleteAccount ==
  <<<<"again", "purge">>>> \o Leave("username") \o Leave("email") \o Leave("webid")
  \o <<<<"remove", "file">>>>

\* deleteAccountAndOptionallyPurge; without the purge the pod stays.
DeleteAccountAndPurge == DeleteAccount \o <<<<"purge", "pod">>>>

HandleDeleteAccount == FindBy("webid") \o <<<<"verify", "password">>>>
HandleAccountDeleteForm == FindBy("username") \o <<<<"verify", "password">>>>

AddPasskey == <<<<"again", "fail">>, <<"write", "addPasskey">>>> \o Enter("passkey")
RemovePasskey == <<<<"again", "fail">>, <<"write", "removePasskey">>>> \o Leave("passkey")

\* updateLastLogin, updatePasskeyCounter, setPasskeyPromptDismissed: the account is
\* written back with another date, counter or flag.
UpdateLastLogin == <<<<"again", "fail">>, <<"write", "login">>>>
-----------------------------------------------------------------------------
Step(t) == Head(task[t].todo)
Underway(t) == task[t].todo # <<>>
At(t, what) == Underway(t) /\ Step(t)[1] = what

\* The operation of t goes on as r, or ends.
Continue(t, r) == task' = [task EXCEPT ![t] = [r EXCEPT !.todo = Tail(@)]]
End(t) == task' = [task EXCEPT ![t] = [Idle EXCEPT !.op = "done"]]

\* The key under which t's account is, or is to be, in an index.
KeyOf(t, x) == IF x = "passkey" THEN task[t].passkey ELSE task[t].form[x]

\* The account that the copy of an index leads to.
Led(t, x) == {e[2] : e \in {e \in task[t].copy : e[1] = KeyOf(t, x)}}
Found(t, x) == IF Led(t, x) = {} THEN NoFile ELSE files[CHOOSE i \in Led(t, x) : TRUE]

\* The files that the next step of t reads, and those that it writes.
Reads(t) ==
  CASE At(t, "load") -> {Step(t)[2]}
    [] At(t, "find") \/ At(t, "absent") -> Led(t, Step(t)[2])
    [] At(t, "again") -> {task[t].account.id}
    [] OTHER -> {}
Writes(t) ==
  CASE At(t, "enter") \/ At(t, "leave") -> {Step(t)[2]}
    [] At(t, "write") -> {task[t].account.id}
    [] OTHER -> {}
Readable(t) == Reads(t) \cap torn = {}

\* A request for the account of a form, with a password given, maybe a new one.
Begin(t, op, todo, f, given, new) ==
  /\ task[t].op = "idle"
  /\ task' = [task EXCEPT ![t] =
                [op |-> op, todo |-> todo, account |-> NoFile, copy |-> {},
                 form |-> f, password |-> given, new |-> new]]
  /\ UNCHANGED <<files, index, podOf, torn, mishaps, failed, raced>>

\* A request about an account of which the id is known, and a passkey.
BeginById(t, op, todo, i, k) ==
  /\ task[t].op = "idle"
  /\ files[i] # NoFile
  /\ task' = [task EXCEPT ![t] =
                [op |-> op, todo |-> todo, account |-> files[i], copy |-> {},
                 form |-> files[i].form, passkey |-> k]]
  /\ UNCHANGED <<files, index, podOf, torn, mishaps, failed, raced>>

Requests(t) ==
  \/ \E f \in AccountForms, w \in Passwords :
       \/ Begin(t, "register", Register, f, w, w)
       \/ Begin(t, "login", Authenticate, f, w, w)
       \/ \E v \in Passwords : Begin(t, "change", HandleChangePassword, f, w, v)
       \/ Begin(t, "delete", HandleDeleteAccount \o DeleteAccount, f, w, w)
       \/ Begin(t, "delete", HandleAccountDeleteForm \o DeleteAccountAndPurge, f, w, w)
  \/ \E i \in Ids, k \in Passkeys :
       \/ BeginById(t, "addPasskey", AddPasskey, i, k)
       \/ BeginById(t, "removePasskey", RemovePasskey, i, k)
       \/ BeginById(t, "passkeyLogin", FindBy("passkey") \o UpdateLastLogin, i, k)

\* The pod of a registration: refused if it is there.
MakePod(t) ==
  /\ At(t, "makePod")
  /\ IF podOf[task[t].form.pod] = NoId
     THEN /\ podOf' = [podOf EXCEPT ![task[t].form.pod] = t]
          /\ Continue(t, task[t])
     ELSE End(t) /\ UNCHANGED podOf
  /\ UNCHANGED <<files, index, torn, mishaps, failed, raced>>

\* loadIndex.
Load(t) ==
  /\ At(t, "load") /\ Readable(t)
  /\ Continue(t, [task[t] EXCEPT !.copy = index[Step(t)[2]]])
  /\ UNCHANGED <<files, index, podOf, torn, mishaps, failed, raced>>

\* findById of the id in the index. A login that finds nobody by that name looks
\* among the emails; everything else ends.
FindById(t) ==
  /\ At(t, "find") /\ Readable(t)
  /\ LET a == Found(t, Step(t)[2])
     IN CASE a # NoFile -> Continue(t, [task[t] EXCEPT !.account = a])
          [] a = NoFile /\ task[t].op = "login" /\ Step(t)[2] = "username" ->
               task' = [task EXCEPT ![t].todo = ByEmail]
          [] OTHER -> End(t)
  /\ UNCHANGED <<files, index, podOf, torn, mishaps, failed, raced>>

\* createAccount finds the name taken, and the pod that was made for it is removed.
CheckAbsent(t) ==
  /\ At(t, "absent") /\ Readable(t)
  /\ IF Found(t, Step(t)[2]) = NoFile
     THEN Continue(t, task[t]) /\ UNCHANGED <<podOf, raced>>
     ELSE /\ End(t)
          /\ podOf' = [podOf EXCEPT ![task[t].form.pod] = NoId]
          /\ raced' = (raced \/ podOf[task[t].form.pod] # t)
  /\ UNCHANGED <<files, index, torn, mishaps, failed>>

\* bcrypt.compare with the account that was read.
Verify(t) ==
  /\ At(t, "verify")
  /\ IF task[t].account.password = task[t].password
     THEN Continue(t, task[t]) ELSE End(t)
  /\ UNCHANGED <<files, index, podOf, torn, mishaps, failed, raced>>

\* A name of the form has been taken after it was looked for, or by an account that is
\* not in the index (yet).
LookedFor == {CreateAccount[n][2] : n \in {m \in DOMAIN CreateAccount : CreateAccount[m][1] = "absent"}}
Overtaken(f) ==
  \/ \E x \in LookedFor : \E e \in index[x] : e[1] = f[x] /\ files[e[2]] # NoFile
  \/ \E i \in Ids, x \in FormKeys :
       files[i] # NoFile /\ files[i].form[x] = f[x] /\ <<f[x], i>> \notin index[x]

\* createAccount writes the file of the new account.
Put(t) ==
  /\ At(t, "put")
  /\ LET a == Account(t, task[t].form, task[t].password, {})
     IN /\ files' = [files EXCEPT ![t] = a]
        /\ Continue(t, [task[t] EXCEPT !.account = a])
  /\ raced' = (raced \/ Overtaken(task[t].form))
  /\ UNCHANGED <<index, podOf, torn, mishaps, failed>>

\* A passkey that is there already, or not there to be removed: nothing is written.
Needless(t, a) ==
  \/ task[t].op = "addPasskey" /\ task[t].passkey \in a.passkeys
  \/ task[t].op = "removePasskey" /\ task[t].passkey \notin a.passkeys

\* Of the steps to do only the purge, if it is one of them.
OnlyPurge(todo) ==
  IF <<"purge", "pod">> \in {todo[n] : n \in DOMAIN todo} THEN <<<<"purge", "pod">>>> ELSE <<>>

\* findById of an account that was found before; it may be gone.
Again(t) ==
  /\ At(t, "again") /\ Readable(t)
  /\ LET a == files[task[t].account.id]
     IN CASE a # NoFile /\ ~ Needless(t, a) -> Continue(t, [task[t] EXCEPT !.account = a])
          [] a = NoFile /\ Step(t)[2] = "purge" ->
               task' = [task EXCEPT ![t].todo = OnlyPurge(@)]
          [] OTHER -> End(t)
  /\ UNCHANGED <<files, index, podOf, torn, mishaps, failed, raced>>

\* What is written back.
Amended(t) ==
  CASE Step(t)[2] = "change" -> [task[t].account EXCEPT !.password = task[t].new]
    [] Step(t)[2] = "addPasskey" -> [task[t].account EXCEPT !.passkeys = @ \cup {task[t].passkey}]
    [] Step(t)[2] = "removePasskey" -> [task[t].account EXCEPT !.passkeys = @ \ {task[t].passkey}]
    [] OTHER -> task[t].account

\* writeJson of the account as it was read, amended: also when it has changed or gone.
Write(t) ==
  /\ At(t, "write")
  /\ torn' = torn \ Writes(t)
  /\ files' = [files EXCEPT ![task[t].account.id] = Amended(t)]
  /\ raced' = (raced \/ files[task[t].account.id] # task[t].account)
  /\ Continue(t, task[t])
  /\ UNCHANGED <<index, podOf, mishaps, failed>>

\* An entry of the account itself, and the others of the index that was loaded.
Mine(t, x) ==
  <<IF x = "passkey" THEN task[t].passkey ELSE task[t].account.form[x], task[t].account.id>>
Others(t, x) == {e \in task[t].copy : e[1] # Mine(t, x)[1]}

\* An account is deleted whose indexes are not complete yet.
Deletes(u, i) == Underway(u) /\ task[u].op = "delete" /\ task[u].account.id = i

\* saveIndex with the entry.
SaveEntered(t) ==
  /\ At(t, "enter")
  /\ torn' = torn \ Writes(t)
  /\ LET x == Step(t)[2]
     IN /\ index' = [index EXCEPT ![x] = Others(t, x) \cup {Mine(t, x)}]
        /\ raced' = (raced \/ index[x] # task[t].copy \/ files[task[t].account.id] = NoFile
                           \/ \E u \in Tasks : Deletes(u, task[t].account.id))
  /\ Continue(t, task[t])
  /\ UNCHANGED <<files, podOf, mishaps, failed>>

\* saveIndex without the entry of that name, whoever's it is.
SaveLeft(t) ==
  /\ At(t, "leave")
  /\ torn' = torn \ Writes(t)
  /\ LET x == Step(t)[2]
     IN /\ index' = [index EXCEPT ![x] = Others(t, x)]
        /\ raced' = (raced \/ index[x] # task[t].copy
                           \/ index[x] \ Others(t, x) \notin {{}, {Mine(t, x)}})
  /\ Continue(t, task[t])
  /\ UNCHANGED <<files, podOf, mishaps, failed>>

\* deleteAccount removes the file.
Remove(t) ==
  /\ At(t, "remove")
  /\ torn' = torn \ {task[t].account.id}
  /\ files' = [files EXCEPT ![task[t].account.id] = NoFile]
  /\ Continue(t, task[t])
  /\ UNCHANGED <<index, podOf, mishaps, failed, raced>>

\* The pod with the name in the account is removed, if that works.
Purge(t) ==
  /\ At(t, "purge")
  /\ \/ /\ podOf' = [podOf EXCEPT ![task[t].account.form.pod] = NoId]
        /\ raced' = (raced \/ podOf[task[t].account.form.pod] \notin {NoId, task[t].account.id})
     \/ UNCHANGED <<podOf, raced>>
  /\ Continue(t, task[t])
  /\ UNCHANGED <<files, index, torn, mishaps, failed>>

\* The operation throws: it has read a file that is torn or that somebody is writing, or
\* a write fails, which may tear the file. handleCreatePod then removes the pod; if the
\* file of the account was there, the account stays, without pod and some of its names.
\* (The file of a new account that could not be written is nobody's: no index has it.)
Throws(t) ==
  /\ \/ /\ Reads(t) \cap (torn \cup UNION {Writes(u) : u \in Tasks \ {t}}) # {}
        /\ UNCHANGED <<torn, mishaps>>
     \/ /\ \E what \in {"put", "write", "enter", "leave", "remove"} : At(t, what)
        /\ mishaps < MaxMishaps /\ mishaps' = mishaps + 1
        /\ torn' \in {torn, torn \cup Writes(t)}
  /\ task' = [task EXCEPT ![t] = [Idle EXCEPT !.op = "died"]]
  /\ IF task[t].op = "register"
     THEN /\ podOf' = [podOf EXCEPT ![task[t].form.pod] = NoId]
          /\ raced' = (raced \/ podOf[task[t].form.pod] # t)
     ELSE UNCHANGED <<podOf, raced>>
  /\ failed' = failed \cup {i \in Ids : i = task[t].account.id /\ task[t].op \in {"register", "delete"}}
  /\ UNCHANGED <<files, index>>

\* The server dies and is started again. The files that were being written may be torn.
AccountsCrash ==
  /\ mishaps < MaxMishaps
  /\ mishaps' = mishaps + 1
  /\ \E t \in Tasks : Underway(t)
  /\ task' = [t \in Tasks |-> IF Underway(t) THEN [Idle EXCEPT !.op = "died"] ELSE task[t]]
  /\ \E cut \in SUBSET UNION {Writes(t) : t \in Tasks} : torn' = torn \cup cut
  /\ UNCHANGED <<files, index, podOf, failed, raced>>

AccountsNext ==
  \/ \E t \in Tasks :
       \/ Requests(t) \/ MakePod(t) \/ Load(t) \/ FindById(t) \/ CheckAbsent(t) \/ Verify(t)
       \/ Put(t) \/ Again(t) \/ Write(t) \/ SaveEntered(t) \/ SaveLeft(t) \/ Remove(t) \/ Purge(t)
       \/ Throws(t)
  \/ AccountsCrash

AccountsSpec == AccountsInit /\ [][AccountsNext]_accountVars
-----------------------------------------------------------------------------
AccountsTypeOK ==
  /\ files \in [Ids -> AccountFiles \cup {NoFile}]
  /\ \A i \in Ids : files[i].id \in {i, NoId}
  /\ \A x \in FormKeys : index[x] \subseteq {f[x] : f \in AccountForms} \X Ids
  /\ index["passkey"] \subseteq Passkeys \X Ids
  /\ podOf \in [Pods -> Ids \cup {NoId}]
  /\ torn \subseteq Indexes \cup Ids /\ mishaps \in 0..MaxMishaps
  /\ failed \subseteq Ids /\ raced \in BOOLEAN

\* A name in an index that can be read leads to an account of that name: at any moment of
\* any operation, when one throws and after a crash, because a file is made before and
\* removed after its names. Without a race the account is always there.
IndexedExist ==
  \A x \in FormKeys : \A e \in index[x] :
    IF files[e[2]] = NoFile THEN raced ELSE files[e[2]].form[x] = e[1]

\* Without a race no two accounts have a name, an email or a WebID in common: not even
\* when an index is torn, because nobody is registered who cannot be looked for.
NamesUnique ==
  raced \/ \A i, j \in {i \in Ids : files[i] # NoFile} :
             i # j => \A x \in FormKeys : files[i].form[x] # files[j].form[x]

\* Without a race, an account that no operation is at work on has all its names in
\* the indexes, unless an operation on it threw, the server died or a write failed.
AllIndexed ==
  \A i \in Ids :
    files[i] # NoFile /\ i \notin failed /\ ~ raced /\ mishaps = 0
    /\ (\A t \in Tasks : Underway(t) => task[t].account.id # i)
    => \A x \in FormKeys : <<files[i].form[x], i>> \in index[x]

\* Without a race an account has the pod that was made for it: it is removed neither when
\* a registration for the same name fails, for whatever reason, nor before the account is.
\* The exception is an account whose own registration threw after its file was written, by
\* a torn index or a full disk: its pod is rolled back and the account is not.
PodsKept ==
  \A i \in Ids :
    files[i] # NoFile /\ i \notin failed /\ ~ raced => podOf[files[i].form.pod] = i

\* A changed password stays: only the next change replaces it. (It does not: a login that
\* began before writes the old one back.)
ChangedPasswordStays ==
  [][\A i \in Ids : files[i] # NoFile /\ files'[i] # NoFile
                    /\ files'[i].password # files[i].password
       => \E t \in Tasks : task[t].op = "change" /\ files'[i].password = task[t].new]_accountVars

\* The three indexes, the account files and the pods agree when requests that load, change
\* and save them overlap, throw or are cut short, with the exceptions that each part names.
AccountsSafe == AccountsTypeOK /\ IndexedExist /\ NamesUnique /\ AllIndexed /\ PodsKept
=============================================================================
