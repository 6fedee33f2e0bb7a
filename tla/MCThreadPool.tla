----------------------------- MODULE MCThreadPool -----------------------------
(* Small programs that use the pool: who makes which API calls. *)
EXTENDS ThreadPoolProps

CONSTANTS main, user    \* two client threads

OneClient == {main}
TwoClients == {main, user}

(* Both clients add work, jobs add work, one client waits. *)
CallsWork == {<<main, "add">>, <<main, "wait">>, <<user, "add">>, <<0, "add">>}

(* Both clients wait. *)
CallsTwoWait == {<<main, "add">>, <<main, "wait">>, <<user, "wait">>}

(* One client adds work while the owner pauses and resumes. *)
CallsPause == {<<user, "add">>, <<main, "pause">>, <<main, "resume">>}

(* One client uses the pool, and destroys it at any time; jobs add work. *)
CallsLive == {<<main, "add">>, <<main, "wait">>, <<main, "destroy">>, <<0, "add">>}

(* The same, and a second client adds and waits. *)
CallsAll == CallsLive \cup {<<user, "wait">>, <<user, "add">>}

(* The owner pauses, never resumes. *)
CallsAddPause == {<<main, "add">>, <<main, "pause">>}
===============================================================================
