----------------------- MODULE MCRegisteredReconcile -----------------------
(* Two streams: the worker of s1 was replaced twice, that of s2 once. *)
EXTENDS RegisteredReconcile, TLC

MCOrder == <<"s1", "s2">>
MCChain == "s1" :> <<"a2", "a1">> @@ "s2" :> <<"b1">>
MCStart == {"a2" :> "active" @@ "a1" :> "idle" @@ "b1" :> "idle",
            "a2" :> "absent" @@ "a1" :> "absent" @@ "b1" :> "idle"}

=============================================================================
