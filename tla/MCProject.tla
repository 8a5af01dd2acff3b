------------------------------- MODULE MCProject ------------------------------
(* One source file that may be written, one that may not, and one artifact,  *)
(* whose key is one of two.                                                  *)
EXTENDS Project

CONSTANTS tech, product, sync1, sync2, key1, key2, lib, env, app, web, here, story, sprint, other, one, two, vineyard

Item1(f, b) == [path |-> f, body |-> b]

Entry(k, m, st) == [key |-> k, module |-> m, status |-> st]

\* A key listed twice, with and without a module.  Read while it is written, the file shows
\* the key otherwise, or without the later ones.
MCStatuses ==
  {<<Entry(key1, None, "planned"), Entry(key2, None, "planned"), Entry(key1, vineyard, "review")>>}

\* One item, a file twice, a bad item behind a good one.
MCBatches ==
  {<<Item1(story, one)>>,
   <<Item1(env, one)>>, <<Item1(lib, one), Item1(lib, two)>>, <<Item1(lib, one), Item1(lib, Secret)>>}
    \cup {<<Item1(sprint, said)>> : said \in MCStatuses}

Line(p, root, writes) == [project |-> p, root |-> root, writes |-> writes, denied |-> {}]

\* The root of app comes from its registration, and its later line counts; or another
\* project's line has no roots, which keeps app from writing too.
MCConfigs ==
  [projects : {<<[project |-> app, root |-> here, default |-> TRUE]>>},
   policies : {<<Line(app, None, {env}), Line(app, None, {lib, env})>>,
               <<Line(app, None, {lib}), Line(web, here, {})>>}]

MCHome == (sync1 :> product) @@ (sync2 :> product)
MCSymmetry == Permutations(Syncs)
MCArtifact == (key1 :> story) @@ (key2 :> other)

=============================================================================
