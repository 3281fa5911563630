--------------------------- MODULE RemoteStorage ---------------------------
(***************************************************************************)
(* remoteStorage (src/remotestorage.js): GET, PUT and DELETE of the        *)
(* documents of one folder, and of the folder, beside the LDP handlers. No *)
(* lock is taken; one action is the code between two awaits. A version of  *)
(* a file is the time of its write, and its ETag names it: writes fall in  *)
(* different ticks (ResourceWrites has those that do not, and the moments  *)
(* at which a file is half written). HEAD is a GET without its last step.  *)
(***************************************************************************)
EXTENDS Naturals, FiniteSets

CONSTANTS
  Clients,
  Strangers,   \* the clients without a token
  Docs,
  Dotfiles,    \* ACLs and other names that begin with a dot
  InPublic,    \* the folder is under /public/
  ReadOnly,
  MaxWrites    \* a bound: writes

TheFolder == "folder"

ASSUME RemoteAssumption ==
  /\ Strangers \subseteq Clients
  /\ Docs \cap Dotfiles = {} /\ TheFolder \notin Docs \cup Dotfiles
  /\ {InPublic, ReadOnly} \subseteq BOOLEAN

VARIABLES
  files,     \* name |-> version, or 0
  folder,    \* the mtime of the folder, or 0: it changes with its names only
  time,      \* of the last write
  ask,       \* what each client asks for
  known      \* what each client knows of the folder and of its documents

remoteVars == <<files, folder, time, ask, known>>

Names == Docs \cup Dotfiles
Listed == {n \in Docs : files[n] # 0}

Idle == [step |-> "idle"]
Unknown == [tag |-> 0, body |-> 0]

RemoteInit ==
  /\ files = [n \in Names |-> IF n \in Dotfiles THEN 1 ELSE 0]
  /\ folder = 1
  /\ time = 1
  /\ ask = [c \in Clients |-> Idle]
  /\ known = [c \in Clients |-> [x \in Docs \cup {TheFolder} |-> Unknown]]
-----------------------------------------------------------------------------
(* The file system. *)

\* fs.ensureDir, fs.writeFile: an existing file is overwritten in place.
Write(n) ==
  /\ files' = [files EXCEPT ![n] = time + 1]
  /\ folder' = IF folder = 0 \/ files[n] = 0 THEN time + 1 ELSE folder
  /\ time' = time + 1

\* fs.remove, of a folder with all that is in it.
Unlink(x) ==
  /\ files' = IF x = TheFolder THEN [n \in Names |-> 0] ELSE [files EXCEPT ![x] = 0]
  /\ folder' = IF x = TheFolder THEN 0 ELSE IF files[x] # 0 THEN time + 1 ELSE folder
  /\ time' = time + 1

TagOf(x) == IF x = TheFolder THEN folder ELSE files[x]

\* A write or a deletion by an LDP handler; its lock file touches the folder.
Elsewhere(n) ==
  /\ time < MaxWrites
  /\ \E v \in {0, time + 1} \ {files[n]} : files' = [files EXCEPT ![n] = v]
  /\ folder' = time + 1
  /\ time' = time + 1
  /\ UNCHANGED <<ask, known>>
-----------------------------------------------------------------------------
(* The handlers. *)

Respond(c) == ask' = [ask EXCEPT ![c] = Idle]

\* checkAuth, and the returns before it: the request is answered without a look.
TurnedAway(c, method, x) ==
  \/ method # "GET" /\ ReadOnly
  \/ x \in Dotfiles
  \/ c \in Strangers /\ ~ (InPublic /\ method = "GET")
  \/ method = "PUT" /\ x = TheFolder

\* What a client may name: the ETag that came with the document, or in the listing.
TagsKnown(c, x) ==
  LET listing == known[c][TheFolder]
  IN ({IF x \in Dotfiles THEN 0 ELSE known[c][x].tag}
        \cup {IF listing.tag # 0 /\ x \in DOMAIN listing.body THEN listing.body[x] ELSE 0}) \ {0}

\* cond: no condition, If-Match with an ETag or *, If-None-Match with an ETag or *.
Request(c, method, x, cond, given) ==
  /\ ask[c] = Idle
  /\ cond \in {"match", "changed"} <=> given # 0
  /\ cond \in {"changed", "absent"} => method # "DELETE"
  /\ cond \in {"match", "any"} => method # "GET"
  /\ ask' = IF TurnedAway(c, method, x) THEN ask
            ELSE [ask EXCEPT ![c] = [step |-> "look", method |-> method, x |-> x, cond |-> cond, given |-> given]]
  /\ UNCHANGED <<files, folder, time, known>>

\* checkIfMatch, checkIfNoneMatchForGet and checkIfNoneMatchForWrite.
Passes(r, tag) ==
  CASE r.cond = "none" -> TRUE
    [] r.cond = "match" -> tag = r.given
    [] r.cond = "any" -> tag # 0
    [] r.cond = "changed" -> tag # r.given
    [] r.cond = "absent" -> tag = 0

\* storage.stat and the checks after it: 404, 412, 304, the empty listing, or the next step.
StatAndCheck(c) ==
  /\ ask[c].step = "look"
  /\ LET r == ask[c]
         tag == TagOf(r.x)
         goesOn == (tag # 0 \/ r.method = "PUT") /\ Passes(r, tag)
     IN \/ ~ goesOn /\ Respond(c)
        \/ /\ goesOn
           /\ ask' = [ask EXCEPT ![c] = [step |-> "do", method |-> r.method, x |-> r.x,
                                         cond |-> r.cond, given |-> r.given, tag |-> tag, at |-> time]]
  /\ UNCHANGED <<files, folder, time, known>>

\* createReadStream: what is read is what is there now, under the ETag of the look;
\* 404 if the file has gone.
Stream(c) ==
  /\ ask[c].step = "do" /\ ask[c].method = "GET" /\ ask[c].x # TheFolder
  /\ known' = IF files[ask[c].x] = 0 THEN known
              ELSE [known EXCEPT ![c][ask[c].x] = [tag |-> ask[c].tag, body |-> files[ask[c].x]]]
  /\ Respond(c)
  /\ UNCHANGED <<files, folder, time>>

\* listContainer; the names without those that begin with a dot. If the folder has gone,
\* the listing is empty.
List(c) ==
  /\ ask[c].step = "do" /\ ask[c].method = "GET" /\ ask[c].x = TheFolder
  /\ ask' = [ask EXCEPT ![c] = [step |-> "items", tag |-> ask[c].tag, left |-> Listed,
                                items |-> [n \in Listed |-> 0]]]
  /\ UNCHANGED <<files, folder, time, known>>

\* The stat of each name in turn; no ETag if it has gone.
Item(c) ==
  /\ ask[c].step = "items" /\ ask[c].left # {}
  /\ \E n \in ask[c].left :
       ask' = [ask EXCEPT ![c] = [step |-> "items", tag |-> ask[c].tag, left |-> ask[c].left \ {n},
                                     items |-> [ask[c].items EXCEPT ![n] = files[n]]]]
  /\ UNCHANGED <<files, folder, time, known>>

\* Variant: the listing goes out under the ETag that the folder has by now.
SendItemsTagLast(c) ==
  /\ ask[c].step = "items" /\ ask[c].left = {}
  /\ known' = [known EXCEPT ![c][TheFolder] = [tag |-> folder, body |-> ask[c].items]]
  /\ Respond(c)
  /\ UNCHANGED <<files, folder, time>>

SendItems(c) ==
  /\ ask[c].step = "items" /\ ask[c].left = {}
  /\ known' = [known EXCEPT ![c][TheFolder] = [tag |-> ask[c].tag, body |-> ask[c].items]]
  /\ Respond(c)
  /\ UNCHANGED <<files, folder, time>>

\* PUT: the write, whatever has happened since the look.
PutFile(c) ==
  /\ ask[c].step = "do" /\ ask[c].method = "PUT" /\ time < MaxWrites
  /\ Write(ask[c].x)
  /\ ask' = [ask EXCEPT ![c] = [step |-> "written", x |-> ask[c].x, cond |-> ask[c].cond,
                                given |-> ask[c].given, at |-> ask[c].at, over |-> files[ask[c].x]]]
  /\ UNCHANGED known

\* The answer has the ETag that the file has by then, none if it has gone.
Written(c) == ask[c].step = "written" /\ Respond(c) /\ UNCHANGED <<files, folder, time, known>>

DeleteIt(c) ==
  /\ ask[c].step = "do" /\ ask[c].method = "DELETE" /\ time < MaxWrites
  /\ Unlink(ask[c].x)
  /\ Respond(c)
  /\ UNCHANGED known

RemoteNext ==
  \/ \E n \in Names : Elsewhere(n)
  \/ \E c \in Clients :
       \/ \E method \in {"GET", "PUT", "DELETE"}, x \in Names \cup {TheFolder},
             cond \in {"none", "match", "any", "changed", "absent"} :
            \E given \in {0} \cup TagsKnown(c, x) : Request(c, method, x, cond, given)
       \/ StatAndCheck(c) \/ Stream(c) \/ List(c) \/ Item(c) \/ SendItems(c) \/ PutFile(c) \/ Written(c)
       \/ DeleteIt(c)

RemoteSpec == RemoteInit /\ [][RemoteNext]_remoteVars
-----------------------------------------------------------------------------
\* Types.
RemoteTypeOK ==
  /\ files \in [Names -> 0 .. time]
  /\ folder \in 0 .. time
  /\ (folder = 0 => \A n \in Names : files[n] = 0)
  /\ \A c \in Clients : ask[c].step \in {"idle", "look", "do", "items", "written"}

\* What a client has read is what it can revalidate: as long as the ETag it was given is
\* that of the file, the body it got with it is what is in the file, although the two
\* were read one after the other and no lock kept writers away.
TagNamesBody ==
  \A c \in Clients, d \in Docs :
    known[c][d].tag # 0 /\ known[c][d].tag = files[d] => known[c][d].body = files[d]

\* As long as the ETag of a listing is that of the folder, the names in it are those in
\* the folder, although they were read later. (Their ETags are not: an overwritten file
\* leaves its folder as it was.)
TagNamesListing ==
  \A c \in Clients :
    known[c][TheFolder].tag # 0 /\ known[c][TheFolder].tag = folder =>
      DOMAIN known[c][TheFolder].body = Listed

\* A write with If-Match replaces the version it names, or one that was written after the
\* handler looked: nothing older is lost.
LostOnlySinceLook ==
  \A c \in Clients :
    ask[c].step = "written" /\ ask[c].cond = "match" =>
      ask[c].over \in {0, ask[c].given} \/ ask[c].over > ask[c].at

\* What a sync client relies on between its requests, without a lock on the server.
RemoteSafe == RemoteTypeOK /\ TagNamesBody /\ TagNamesListing /\ LostOnlySinceLook
=============================================================================
