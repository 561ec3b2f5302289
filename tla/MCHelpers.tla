----------------------------- MODULE MCHelpers -----------------------------
(***************************************************************************)
(* The helpers of the app, for TLC: the AI daemon with Claude and with the *)
(* local model, the file of that model, the login of Claude, the install,  *)
(* the first-run setup, and two tables of what is to be kept: the rows of  *)
(* the sidebar and the photos of contacts.  They share no state, so a      *)
(* behaviour is one of one of them, the others standing still: part says   *)
(* whose.                                                                  *)
(***************************************************************************)
EXTENDS ClaudeRunner

CONSTANTS
  f1, e1, m1, c1, c2,
  Classifies, MaxStops,  \* of LocalModel, whose Fixes and MaxDeaths are those of ClaudeRunner
  MaxStarts,             \* of LocalModel and ClaudeLogin
  Size, Declared,        \* of ModelDownload
  MaxVersion, MaxFails   \* of Helpers

ASSUME BoundsAssumption ==
  /\ MaxStarts \in Nat /\ Size \in Nat /\ Declared \in BOOLEAN /\ MaxVersion \in Nat /\ MaxFails \in Nat

VARIABLES
  part,
  proc, told, child, ready, start, idle, req, interactive, used,
  version, partFile, dest, run, phase, stops,
  cli, login, timer, timers, shown, overtaken,
  bundled, place, agent, loaded, daemon, started, app, tool, step, spent, seen,
  done, stored, signedIn, open, screen, replies, late, moves,
  file, patch, chosen, reader, cached, met, patches, starts, quits,
  cats, queries, made, disk, edition, lists, arranged, answers, meant, slips, acts, launches,
  at, url, photo, task, online, misses, troubles, trips

claude == vars
model == <<proc, told, child, ready, start, idle, req, interactive, used>>
download == <<version, partFile, dest, run, phase, stops>>
signIn == <<cli, login, timer, timers, shown, overtaken>>
install == <<bundled, place, agent, loaded, daemon, started, app, tool, step, spent, seen>>
wizard == <<done, stored, signedIn, open, screen, replies, late, moves>>
config == <<file, patch, chosen, reader, cached, met, patches, starts, quits>>
sidebar == <<cats, queries, made, disk, edition, lists, arranged, answers, meant, slips, acts, launches>>
photos == <<at, url, photo, task, online, misses, troubles, trips>>

Llama == INSTANCE LocalModel WITH spent <- used
Fetch == INSTANCE ModelDownload WITH
  MaxChanges <- 1, MaxStops <- 3,
  part <- partFile
Login == INSTANCE ClaudeLogin WITH child <- login
Bundle == INSTANCE Helpers WITH MaxCrashes <- 1
Wizard == INSTANCE Setup WITH MaxMoves <- 8
Config == INSTANCE AiConfig WITH MaxPatches <- 2, MaxStarts <- 2, MaxQuits <- 1, daemon <- reader
Photos == INSTANCE Contacts WITH
  MaxTroubles <- 1, MaxMoves <- 3,
  signedIn <- online, slips <- misses, moves <- trips

(* A builtin of each kind: an old one, one a later edition puts behind it  *)
(* and one at the head, and one that begins hidden.                        *)
Builtin(n, group, after, first, hidden, since) ==
  [id |-> <<n>>, group |-> group, after |-> after, first |-> first, hidden |-> hidden, since |-> since]
Side == INSTANCE Sidebar WITH
  Groups <- <<"inbox", "folders">>,
  Home <- [category |-> "inbox", search |-> "folders"],
  Builtins <- <<Builtin("inbox", "inbox", <<>>, FALSE, FALSE, 1),
                Builtin("filtered", "inbox", <<"inbox">>, FALSE, FALSE, 2),
                Builtin("first", "folders", <<>>, TRUE, FALSE, 2),
                Builtin("spam", "folders", <<>>, FALSE, TRUE, 1)>>,
  Names <- {c1, c2}, Editions <- 2, MaxSearches <- 1, MaxActs <- 3, MaxStarts <- 1,
  starts <- launches

AllInit ==
  /\ part \in {"claude", "model", "download", "login", "install", "wizard", "config",
               "sidebar", "photos"}
  /\ Init /\ Llama!Init /\ Fetch!Init /\ Login!Init /\ Wizard!Init /\ Config!Init /\ Bundle!Init
  /\ Side!Init /\ Photos!Init
  /\ part # "install" => app = Bundle!Nothing
  /\ part # "photos" => at = {} /\ ~online

AllNext ==
  \/ /\ part = "claude" /\ Next
     /\ UNCHANGED <<part, model, download, signIn, install, wizard, config, sidebar, photos>>
  \/ /\ part = "model" /\ Llama!Next
     /\ UNCHANGED <<part, claude, download, signIn, install, wizard, config, sidebar, photos>>
  \/ /\ part = "download" /\ Fetch!Next
     /\ UNCHANGED <<part, claude, model, signIn, install, wizard, config, sidebar, photos>>
  \/ /\ part = "login" /\ Login!Next
     /\ UNCHANGED <<part, claude, model, download, install, wizard, config, sidebar, photos>>
  \/ /\ part = "install" /\ Bundle!Next
     /\ UNCHANGED <<part, claude, model, download, signIn, wizard, config, sidebar, photos>>
  \/ /\ part = "wizard" /\ Wizard!Next
     /\ UNCHANGED <<part, claude, model, download, signIn, install, config, sidebar, photos>>
  \/ /\ part = "config" /\ Config!Next
     /\ UNCHANGED <<part, claude, model, download, signIn, install, wizard, sidebar, photos>>
  \/ /\ part = "sidebar" /\ Side!Next
     /\ UNCHANGED <<part, claude, model, download, signIn, install, wizard, config, photos>>
  \/ /\ part = "photos" /\ Photos!Next
     /\ UNCHANGED <<part, claude, model, download, signIn, install, wizard, config, sidebar>>

AllSpec ==
  /\ AllInit
  /\ [][AllNext]_<<part, claude, model, download, signIn, install, wizard, config, sidebar, photos>>
  /\ \A c \in Calls : WF_claude(part = "claude" /\ Works(c))
  /\ WF_model(part = "model" /\ Llama!Starting)
  /\ \A r \in Classifies : WF_model(part = "model" /\ Llama!AskClassify(r))
  /\ \A r \in Llama!Requests : WF_model(part = "model" /\ Llama!IsAnswered(r))

-----------------------------------------------------------------------------
(* The properties of the modules, each for its part. *)

(* LocalModel: everybody gets an answer or an error. *)
Answered == part = "model" => Llama!Answered

(* The processes of others.  LocalModel: none runs on that the daemon does *)
(* not own.  ClaudeRunner: one that was killed for its caller's sake says  *)
(* so.  ClaudeLogin: one login runs at a time.                             *)
ChildrenHold == Llama!Owned /\ KilledIsCancelled /\ Login!OneLogin

(* Helpers, ModelDownload, Setup, AiConfig: what the launch keeps is       *)
(* current, what is installed is whole, a quit comes back to its screen    *)
(* and the choice of AI is the one made last.  Contacts: a photo is        *)
(* recorded as missing only when there is none.                            *)
KeptHolds ==
  /\ Bundle!KeptIsCurrent /\ Bundle!InstallHolds /\ Fetch!Whole
  /\ Wizard!Resumes /\ Config!ChoiceHolds
  /\ Photos!NothingIsNothing

(* Sidebar: the rows are where the person put them. *)
Arranged == Side!Arranged
=============================================================================
