---------------------------- MODULE SessionState ----------------------------
(***************************************************************************)
(* A login that survives in a storage state file                           *)
(* (crates/sniff-engine/src/sniffer.rs, crates/sniff-core/src/storage.rs): *)
(* captures of one site restore the file before they navigate, log in      *)
(* through their actions and save the file at the end.                     *)
(*                                                                         *)
(* The cookie jar and the site's localStorage are the browser's: no        *)
(* capture has a browser context of its own.  A login is worth one cookie  *)
(* and one localStorage item, and its value is the capture that logged in. *)
(***************************************************************************)
EXTENDS Naturals, FiniteSets

CONSTANTS Captures,
          Loads,         \* captures with a storage_state_path
          Saves,         \* captures with a save_storage_state, to the same path
          LogsIn,        \* captures whose actions log in
          Renavigates,   \* those whose login form navigates: a new document is loaded
          MaxRelaunches  \* bound: times the browser is started anew

ASSUME Kinds == /\ Loads \subseteq Captures /\ Saves \subseteq Captures
                /\ LogsIn \subseteq Captures /\ Renavigates \subseteq LogsIn
                /\ MaxRelaunches \in Nat
                /\ "none" \notin Captures

VARIABLES
  pc,         \* where each capture is
  jar,        \* the cookie in the browser's jar
  local,      \* the localStorage item of the site
  file,       \* the state file
  temp,       \* {path}.tmp{pid}
  script,     \* the item each capture's init script sets, or "none"
  loaded,     \* what each capture read from the file
  exported,   \* what each capture read from the browser
  relaunches,
  unread,     \* history: captures that saved while the page's localStorage could not be read
  shared      \* history: captures that did not have the browser to themselves

vars == <<pc, jar, local, file, temp, script, loaded, exported, relaunches, unread, shared>>

Values   == Captures \cup {"none"}
State    == [cookie : Values, item : Values]
Nothing  == [cookie |-> "none", item |-> "none"]
NoFile   == [cookie |-> "missing", item |-> "missing"]
Finished == {"done", "failed"}
Idle     == {"idle"} \cup Finished

Goto(c, l) == pc' = [pc EXCEPT ![c] = l]

Init ==
  /\ pc = [c \in Captures |-> "idle"]
  /\ jar = "none"
  /\ local = "none"
  /\ file = NoFile
  /\ temp = NoFile
  /\ script = [c \in Captures |-> "none"]
  /\ loaded = [c \in Captures |-> Nothing]
  /\ exported = [c \in Captures |-> Nothing]
  /\ relaunches = 0
  /\ unread = {}
  /\ shared = {}

-----------------------------------------------------------------------------
Busy == {d \in Captures : pc[d] \notin Idle}

Begin(c) ==
  /\ pc[c] = "idle"
  /\ shared' = IF Busy = {} THEN shared ELSE shared \cup Busy \cup {c}
  /\ Goto(c, IF c \in Loads THEN "restoring" ELSE "navigating")
  /\ UNCHANGED <<jar, local, file, temp, script, loaded, exported, relaunches, unread>>

(* apply_storage_state *)

\* from_file, then Network.setCookies: an empty list is not sent, and clears nothing.
SetCookies(c) ==
  /\ pc[c] = "restoring"
  /\ \/ /\ file = NoFile
        /\ Goto(c, "failed")
        /\ UNCHANGED <<jar, loaded>>
     \/ /\ file # NoFile
        /\ loaded' = [loaded EXCEPT ![c] = file]
        /\ jar' = IF file.cookie = "none" THEN jar ELSE file.cookie
        /\ Goto(c, "scripting")
  /\ UNCHANGED <<local, file, temp, script, exported, relaunches, unread, shared>>

\* to_init_script, Page.addScriptToEvaluateOnNewDocument
AddScript(c) ==
  /\ pc[c] = "scripting"
  /\ script' = [script EXCEPT ![c] = loaded[c].item]
  /\ Goto(c, "navigating")
  /\ UNCHANGED <<jar, local, file, temp, loaded, exported, relaunches, unread, shared>>

\* Every document of the session runs the init script before the page's own.
NewDocument(c) == local' = IF script[c] = "none" THEN local ELSE script[c]

\* Mutated: the script is registered for later documents only
NavigateBeforeScript(c) ==
  /\ pc[c] = "navigating"
  /\ UNCHANGED local
  /\ Goto(c, IF c \in LogsIn THEN "acting" ELSE "extracting")
  /\ UNCHANGED <<jar, file, temp, script, loaded, exported, relaunches, unread, shared>>

Navigate(c) ==
  /\ pc[c] = "navigating"
  /\ NewDocument(c)
  /\ Goto(c, IF c \in LogsIn THEN "acting" ELSE "extracting")
  /\ UNCHANGED <<jar, file, temp, script, loaded, exported, relaunches, unread, shared>>

\* The actions log in: the page stores the new login.
LogIn(c) ==
  /\ pc[c] = "acting"
  /\ jar' = c
  /\ local' = c
  /\ Goto(c, IF c \in Renavigates THEN "renavigating" ELSE "extracting")
  /\ UNCHANGED <<file, temp, script, loaded, exported, relaunches, unread, shared>>

\* The page goes on to its next document.
Renavigate(c) ==
  /\ pc[c] = "renavigating"
  /\ NewDocument(c)
  /\ Goto(c, "extracting")
  /\ UNCHANGED <<jar, file, temp, script, loaded, exported, relaunches, unread, shared>>

\* wait_for_page, extract, contrast, AX and screenshot are over.
Extract(c) ==
  /\ pc[c] = "extracting"
  /\ Goto(c, IF c \in Saves THEN "saving" ELSE "done")
  /\ UNCHANGED <<jar, local, file, temp, script, loaded, exported, relaunches, unread, shared>>

(* save_storage_state *)

\* StorageState::from_cdp
FromCdp(item) == [cookie |-> jar, item |-> item]

\* Mutated: only the cookies are exported
ExportCookies(c) ==
  /\ pc[c] = "saving"
  /\ exported' = [exported EXCEPT ![c] = FromCdp("none")]
  /\ Goto(c, "exported")
  /\ UNCHANGED <<jar, local, file, temp, script, loaded, relaunches, unread, shared>>

\* Network.getAllCookies, then the page's localStorage.  It is read best effort: a page of an
\* opaque origin has none, and a failed evaluation is as good as none; the cookies are saved.
Export(c) ==
  /\ pc[c] = "saving"
  /\ \/ exported' = [exported EXCEPT ![c] = FromCdp(local)] /\ UNCHANGED unread
     \/ exported' = [exported EXCEPT ![c] = FromCdp("none")] /\ unread' = unread \cup {c}
  /\ Goto(c, "exported")
  /\ UNCHANGED <<jar, local, file, temp, script, loaded, relaunches, shared>>

\* write_file: the temporary file is the process's, whoever writes it
WriteTemp(c) ==
  /\ pc[c] = "exported"
  /\ temp' = exported[c]
  /\ Goto(c, "written")
  /\ UNCHANGED <<jar, local, file, script, loaded, exported, relaunches, unread, shared>>

\* rename; an error when another capture has renamed the file away
RenameTemp(c) ==
  /\ pc[c] = "written"
  /\ IF temp = NoFile
     THEN Goto(c, "failed") /\ UNCHANGED <<file, temp>>
     ELSE Goto(c, "done") /\ file' = temp /\ temp' = NoFile
  /\ UNCHANGED <<jar, local, script, loaded, exported, relaunches, unread, shared>>

\* An error at any step, or no match: nothing is saved after it.
Fail(c) ==
  /\ pc[c] \notin Idle
  /\ Goto(c, "failed")
  /\ UNCHANGED <<jar, local, file, temp, script, loaded, exported, relaunches, unread, shared>>

\* The browser is started anew between captures, with an empty profile.
Relaunch ==
  /\ relaunches < MaxRelaunches
  /\ \A c \in Captures : pc[c] \in Idle
  /\ relaunches' = relaunches + 1
  /\ jar' = "none"
  /\ local' = "none"
  /\ UNCHANGED <<pc, file, temp, script, loaded, exported, unread, shared>>

-----------------------------------------------------------------------------
Capture(c) == \/ Begin(c) \/ SetCookies(c) \/ AddScript(c) \/ Navigate(c) \/ LogIn(c)
              \/ Renavigate(c) \/ Extract(c) \/ Export(c) \/ WriteTemp(c) \/ RenameTemp(c)
              \/ Fail(c)

Next == Relaunch \/ \E c \in Captures : Capture(c)

Spec == Init /\ [][Next]_vars

-----------------------------------------------------------------------------
(* Properties. *)

TypeOK ==
  /\ pc \in [Captures -> {"restoring", "scripting", "navigating", "acting", "renavigating",
                          "extracting", "saving", "exported", "written"} \cup Idle]
  /\ jar \in Values /\ local \in Values
  /\ file \in State \cup {NoFile} /\ temp \in State \cup {NoFile}
  /\ script \in [Captures -> Values]
  /\ loaded \in [Captures -> State] /\ exported \in [Captures -> State]
  /\ relaunches \in 0..MaxRelaunches
  /\ unread \subseteq Captures /\ shared \subseteq Captures

LoggedIn(c)    == [cookie |-> c, item |-> c]
CookiesOnly(c) == [cookie |-> c, item |-> "none"]

\* "a session survives across server restarts and browser relaunches": a capture that
\* restores a login, and has the browser to itself, sees the page as that user, however
\* often the browser was replaced and whoever used it before.
RestoredLoginSeen ==
  \A c \in (Loads \ LogsIn) \ shared : \A u \in Captures :
    pc[c] = "extracting" /\ loaded[c] = LoggedIn(u) => jar = u /\ local = u

\* "Persist the session state at the very end - after any login performed through
\* actions": a capture that logged in, and has the browser to itself, replaces the file by
\* its own login, unless a document after the login had an older one restored into it; when
\* localStorage could not be read "cookies alone still persist the login", its own ones.
LoginSaved ==
  [][\A c \in LogsIn \ shared :
       pc[c] = "written" /\ pc'[c] = "done" /\ (c \in Renavigates => script[c] = "none") =>
         file' = IF c \in unread THEN CookiesOnly(c) ELSE LoggedIn(c)]_vars

\* "restores this state into a fresh browser session": a capture without a state file
\* does not navigate as somebody who logged in in another capture.
FreshSession == \A c \in Captures \ Loads : pc[c] = "navigating" => jar = "none"
=============================================================================
