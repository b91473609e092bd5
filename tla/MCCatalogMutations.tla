------------------------ MODULE MCCatalogMutations ------------------------
EXTENDS CatalogMutations, TLC

CONSTANTS project, business, association, archive, create, link, unlink, bind, agent, a1, a2

Every == (archive :> "update") @@ (create :> "create") @@ (link :> "link") @@ (unlink :> "unlink")
         @@ (bind :> "bind")
Concerned == (archive :> project) @@ (create :> project) @@ (link :> association) @@ (unlink :> association)
             @@ (bind :> agent)
Projects == association :> project
Agents == agent :> project
Businesses == association :> business
Kinds == [r \in Request |-> Every[r]]
Subjects == [r \in Request |-> Concerned[r]]

\* Handlers only publish, and nobody else reads what they write: an instance has
\* either requests, or a page that follows other publishers.
Apart == /\ sends = 0 /\ sends' > 0 => StreamInit
         /\ sends > 0 => handler' # handler
===========================================================================
