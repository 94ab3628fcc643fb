------------------------- MODULE MCStatefulSetTemplate -------------------------
(* Instances of StatefulSetTemplate for TLC.                               *)
EXTENDS StatefulSetTemplate

NoClaim      == [kind |-> "none", name |-> <<>>]
EmptyDir     == [kind |-> "emptyDir", name |-> <<>>]
Claim(n, u)  == [kind |-> "claim", name |-> <<>>, size |-> [n |-> n, unit |-> u], class |-> "slow"]
OtherClaim   == [Claim(3, "Gi") EXCEPT !.name = <<"b">>]
FastClaim    == [Claim(3, "Gi") EXCEPT !.class = "fast"]

AnyProbe     == [handlers |-> {}, timing |-> [t \in {} |-> 0]]
Patient      == [handlers |-> {}, timing |-> [delay |-> 0, failure |-> 5]]
Probed(h)    == [handlers |-> h, timing |-> [timeout |-> 2]]

Plain == [storage |-> NoClaim, bootableJar |-> FALSE, standaloneConfigMap |-> FALSE,
          secrets |-> <<>>, configMaps |-> <<>>, application |-> "v1", env |-> <<>>,
          probes |-> [k \in ProbeKinds |-> AnyProbe]]

\* Names a secret or a config map may have, one too long for a label.
Short  == <<"a">>
Dotted == <<"a", ".", "b">>
Dashed == <<"a", "-", "b">>
Long   == <<"a", "b", "a", ".", "b">>

Stores == {[Plain EXCEPT !.storage = s] :
              s \in {EmptyDir, Claim(3, "Gi"), Claim(8, "Gi"), Claim(5, "Mi"), OtherClaim, FastClaim}}
Mounted == {
    [Plain EXCEPT !.secrets = <<Short, Dotted>>, !.configMaps = <<Short>>],
    [Plain EXCEPT !.secrets = <<Long>>, !.configMaps = <<Dotted>>, !.storage = Claim(3, "Gi")],
    [Plain EXCEPT !.secrets = <<Dotted, Dashed>>],
    [Plain EXCEPT !.standaloneConfigMap = TRUE, !.application = "v2"]}
Bootable == {
    [Plain EXCEPT !.bootableJar = TRUE, !.storage = Claim(3, "Gi"),
                  !.env = <<Var("JAVA_ARGS", <<"user">>)>>],
    [Plain EXCEPT !.bootableJar = TRUE, !.standaloneConfigMap = TRUE]}
Checked == {
    [Plain EXCEPT !.probes["liveness"] = Probed({"exec", "httpGet"}), !.probes["startup"] = Patient],
    [Plain EXCEPT !.probes["readiness"] = Patient, !.probes["startup"] = Probed({"httpGet"})]}

AllRequests == {Plain} \cup Stores \cup Mounted \cup Bootable \cup Checked

\* The same volume written as 1024Mi, and an edit of the image.
NotCanonical == {[Plain EXCEPT !.storage = Claim(1024, "Mi"), !.application = v] : v \in {"v1", "v2"}}

NoLabels  == [l \in {} |-> "user"]
TeamLabel == [l \in {"team"} |-> "user"]

Deployed(scripts, labels) == [scripts |-> scripts, templateLabels |-> labels]
AllEnvironments == {Deployed({}, NoLabels), Deployed({"liveness"}, TeamLabel),
                    Deployed({"liveness", "readiness"}, [l \in {"runtime"} |-> "other"])}
PlainEnvironment == {Deployed({}, NoLabels)}

Alphabet == {"a", "b", "w", "secret", "configmap", "standalone", "volume"}

Pods == {<<"w", "-", "2">>, <<"w", "-", "9">>, <<"w", "-", "1", "0">>}
================================================================================
