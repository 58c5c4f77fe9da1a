---------------------------- MODULE MCConfiguration ----------------------------
(* An instance of Configuration for TLC.                                     *)
EXTENDS Configuration

\* 1 .. 3 are text, 4 is a number below zero, 5 .. 9 are numbers.
MCNotANumber == {Blank, 1, 2, 3}
MCBelowZero == {4}
MCZero == 9

Label(n, expression) == [name |-> n, value |-> expression, spread |-> FALSE]
Spread(n, expression) == [name |-> n, value |-> expression, spread |-> TRUE]
Metric(labels, value, resolver) ==
    [labels |-> labels, value |-> value, resolver |-> resolver]
Family(name, ms, resolver) ==
    [name |-> name, counter |-> FALSE, resolver |-> resolver, script |-> "",
     labels |-> <<>>, metrics |-> ms]

\* The condition statuses of the golden tests: two lists beside the values.
Conditions == Family("conditions",
    <<Metric(<<Label(2, "types"), Label(1, "reasons")>>, "statuses", "cel")>>, "")
\* A counter with the labels of a map, and one the unstructured resolver reads.
Replicas == [Family("replicas_total",
    <<Metric(<<Label(1, "app")>>, "replicas", ""),
      Metric(<<Spread(3, "status")>>, "replicas", "unstructured")>>, "cel")
    EXCEPT !.counter = TRUE]
\* A script, and a family that names the resolver without one.
Scripted == [Family("scripted", <<>>, "starlark")
    EXCEPT !.script = "script", !.counter = TRUE]
Scriptless == [Family("conditions", <<Metric(<<>>, "replicas", "")>>, "starlark")
    EXCEPT !.counter = TRUE]

AnyName == {"core", "apps", "v1", "Pod", "Review", "Deployment", "pods", "reviews", "deployments"}
Api(group, kind, resource, verbs, sub) ==
    [group |-> group, version |-> "v1", kind |-> kind, resource |-> resource,
     verbs |-> verbs, subresource |-> sub]
Pods == Api("core", "Pod", "pods", {"list", "watch", "create"}, FALSE)
PodStatus == Api("core", "Pod", "pods/status", {"get"}, TRUE)
Reviews == Api("apps", "Review", "reviews", {"create"}, FALSE)
Deployments == Api("apps", "Deployment", "deployments", {}, FALSE)

MCAnswers == {Failed, <<Pods, PodStatus, Reviews, Deployments>>, <<Deployments>>}

Entry(group, kind, resource, labels, families) ==
    [group |-> group, version |-> Literal("v1"), kind |-> kind, resource |-> resource,
     resolver |-> "unstructured", labels |-> labels, families |-> families]
PodEntry == Entry(Literal("core"), Literal("Pod"), Literal("pods"),
                  <<Label(3, "zones")>>, <<Conditions, Replicas>>)
ReviewEntry == Entry(Literal("apps"), Literal("Review"), Pattern("*", AnyName),
                     <<>>, <<Scriptless>>)
AnyEntry == Entry(Pattern("*", AnyName), Pattern("*", AnyName), Pattern("*", AnyName),
                  <<Label(3, "app")>>, <<Conditions, Scripted>>)
NamedEntry == Entry(Pattern("a*", {"apps"}), Literal("Deployment"), Literal("deployments"),
                    <<Label(1, "app")>>, <<Replicas>>)

MCConfigs == {<<PodEntry, AnyEntry>>, <<AnyEntry, PodEntry, ReviewEntry>>,
              <<PodEntry>>, <<NamedEntry, AnyEntry>>}

\* Scripts: a label too large for an int64, a sample below zero and then one made
\* by hand, in two families; a sample without a number beside a good one; a metric of
\* an int; labels that collide when prefixed; a family without a help beside a good one.
Text(t) == Value("string", t)
Labels(n, v) == Dict(<< <<Key(n), v>> >>)
ByHand(labels, value) == Dict(<< <<Key("labels"), labels>>, <<Key("value"), value>> >>)
Gauge(samples) == FamilyBuiltin(Text("any"), Text("any"), Text("gauge"), List(samples))
Globals(fs) == Dict(<< <<Key("families"), List(fs)>> >>)
Large == Globals(<<Gauge(<<MetricBuiltin(Labels("a", Value("bigint", 7)), Value("float", 5)),
                           MetricBuiltin(Labels("b", Text(2)), Value("float", 4))>>),
                   Gauge(<<ByHand(Labels("a", Text(1)), Value("int", 6))>>)>>)
HalfGood == Globals(<<Gauge(<<MetricBuiltin(Labels("a", Text(1)), Value("float", 5)),
                              ByHand(Labels("a", List(<<Text(1)>>)), Text(2))>>),
                      Gauge(<<>>)>>)
OfInt == Globals(<<Gauge(<<MetricBuiltin(Labels("a", Text(1)), Value("int", 5))>>)>>)
Prefixed == Globals(<<Gauge(<<>>), Gauge(<<MetricBuiltin(
    LabelPrefixBuiltin(Dict(<< <<Key("a/b"), Text(1)>>, <<Key("a-b"), Text(2)>> >>),
                       [n \in {"a/b", "a-b"} |-> "label_a_b"]), Value("float", 8))>>)>>)
Helpless == Globals(<<Gauge(<<MetricBuiltin(Labels("a", Text(1)), Value("float", 5))>>),
    Dict(<< <<Key("name"), Text("any")>>, <<Key("kind"), Text("gauge")>>,
            <<Key("samples"), List(<<>>)>> >>)>>)

Object(app, types, reasons, statuses, zones, status, replicas, script) ==
    [e \in {"app", "types", "reasons", "statuses", "zones", "status", "replicas", "script"} |->
        CASE e = "app" -> Scalar(app)
          [] e = "types" -> Composite(types, <<>>)
          [] e = "reasons" -> Composite(reasons, <<>>)
          [] e = "statuses" -> Composite(statuses, <<>>)
          [] e = "zones" -> Composite(zones, <<>>)
          [] e = "status" -> status
          [] e = "replicas" -> Scalar(replicas)
          [] e = "script" -> script]

\* Ties in the list that leads, a list too short, no list at all, and values
\* that cannot be written.
MCContents == {
    Object(1, <<2, 3, 1>>, <<3, 1, 3>>, <<5, 4, 6>>, <<2, 1, 1>>,
           Composite(<<2, 3>>, 7 :> 8), 5, Large),
    Object(2, <<2, 3>>, <<3>>, <<5, 6>>, <<>>, Composite(<<>>, 7 :> 8), 4, HalfGood),
    Object(2, <<1>>, <<2>>, <<9>>, <<3>>, Scalar(7), 8, Helpless),
    Object(3, <<>>, <<>>, <<>>, <<1>>, Scalar(1), 6, OfInt),
    Object(3, <<3, 1>>, <<2, 1>>, <<7, 7>>, <<2>>, Scalar(Blank), 1, Prefixed)}
================================================================================
