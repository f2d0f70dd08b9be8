-------------------------- MODULE MC_ImportScripts --------------------------
(***************************************************************************)
(* Two models have a file of the same name and content.  LFS stores it in  *)
(* the first, of which upstream's snapshot also has an empty file; the     *)
(* cache has two revisions of it, and paths that are to be skipped: a file *)
(* below the threshold, one that cannot be read, one of a local            *)
(* publication and one outside api/.  Three candidates in batches of two.  *)
(***************************************************************************)
EXTENDS ImportScripts

CONSTANTS i1, e, p   \* an instance, the content, the pointer to it

Models == <<"models">>
Org    == <<"org">>
X      == <<"x">>

Model == [type |-> Models, name |-> <<Org, <<"a", "b">>>>]
Other == [type |-> Models, name |-> <<Org, <<"b">>>>]

MCFiles == {[repo |-> r, name |-> <<X>>, etag |-> e] : r \in {Model, Other}}

MCSnapshot ==
  [r \in {Model} |-> {[name |-> <<X>>, oid |-> p, lfs |-> e, empty |-> FALSE],
                      [name |-> <<<<"y">>>>, oid |-> p, lfs |-> NoLfs, empty |-> TRUE]}]

PathInfo(path, oid, lfs, readable, large) ==
  [path |-> path, oid |-> oid, lfs |-> lfs, readable |-> readable, large |-> large]

Api(org, repo, revision, name) ==
  <<<<"api">>, Models, org, repo, <<"paths", "info">>, revision, name>>

MCDisk ==
  <<PathInfo(Api(<<"dingo", "local">>, <<"b">>, <<"main">>, X), e, NoLfs, TRUE, TRUE),
    PathInfo(Api(Org, <<"a", "b">>, <<"main">>, X), p, e, TRUE, TRUE),
    PathInfo(Api(Org, <<"a", "b">>, <<"v1">>, X), p, e, TRUE, TRUE),
    PathInfo(Api(Org, <<"b">>, <<"main">>, <<"small">>), p, NoLfs, TRUE, FALSE),
    PathInfo(Api(Org, <<"b">>, <<"main">>, X), e, NoLfs, TRUE, TRUE),
    PathInfo(Api(Org, <<"b">>, <<"v1">>, X), e, NoLfs, FALSE, TRUE),
    PathInfo(<<<<"files">>, Models, Org, <<"b">>, <<"resolve">>>>, e, NoLfs, TRUE, TRUE)>>
=============================================================================
