---------------------------- MODULE MCPodManifest ----------------------------
(***************************************************************************)
(* Jobs of one code, up to two inputs, up to one output and perhaps a log, *)
(* over three names of which two differ by an underscore.                  *)
(***************************************************************************)
EXTENDS PodManifest

MCStripped(n) == IF n = "a_b" THEN "ab" ELSE n

\* Claims: two of their own names, and one called as the volume of an input.
Claims == {<<"claim">>, <<"other">>, <<"input", "ab">>}

Data(kind, name) ==
    {[kind |-> kind, name |-> name, type |-> "OSSFile", at |-> <<"s3">>],
     [kind |-> kind, name |-> name, type |-> "HostPath", at |-> <<"dir", name>>],
     [kind |-> kind, name |-> name, type |-> "Filesystem", at |-> <<"dir">>]}
    \union {[kind |-> kind, name |-> name, type |-> "K8SPVC", at |-> c] : c \in Claims}

Inputs ==
    {<<>>} \union UNION {{<<d>> : d \in Data("input", n)} : n \in {"ab", "c"}}
    \union UNION {Data("input", "ab") \X Data("input", n) : n \in {"a_b", "c"}}
Outputs == {<<>>} \union {<<d>> : d \in Data("output", "ab")}
Logs == {{}} \union {{d} : d \in Data("log", "log")}

AllJobs ==
    [code : Data("sourcecode", "src"), inputs : Inputs, outputs : Outputs, log : Logs]
=============================================================================
