------------------------------ MODULE MCConfig ------------------------------
(***************************************************************************)
(* Small sets of files for ServerConfig: every pair of keys with one set   *)
(* of rules, and every combination of rules with one key.                  *)
(***************************************************************************)
EXTENDS ServerConfig

CONSTANTS strong, strong2, weak, addr, host, junk, old, new, name, other

\* The old key ends, the new one begins, or either has no limit.
Keys == [id : {old, new}, secret : {strong}, notBefore : {None, 1},
         notAfter : {None, 2}]

Second == {[l EXCEPT !.secret = strong2] : l \in Keys}

KeyLists == {<<>>} \cup {<<k>> : k \in Keys}
            \cup {<<k, l>> : k \in {x \in Keys : x.id = old}, l \in Second}

Entries(values) == [ref : {None, name, other}, value : values \cup {None},
                    alien : BOOLEAN]

Tokens == {[id \in {} |-> strong]} \cup [{name} -> {strong, weak}]

Named == {[id \in {} |-> addr]} \cup [{name} -> {addr, host, junk}]

Secure == [id |-> new, secret |-> strong, notBefore |-> None, notAfter |-> None]

Inline(v) == [ref |-> None, value |-> v, alien |-> FALSE]

File(keys, tokens, ips, te, ie, rest) ==
    [keys |-> keys, authAddr |-> addr, tokens |-> tokens, ipRules |-> ips,
     tokenEntries |-> te, ipEntries |-> ie, restValid |-> rest]

KeyFiles ==
    {File(ks, [id \in {name} |-> strong], [id \in {} |-> addr],
          <<[ref |-> name, value |-> None, alien |-> FALSE]>>, <<>>, TRUE) :
        ks \in KeyLists}

RuleFiles ==
    {File(<<Secure>>, ts, [id \in {} |-> addr], <<Inline(strong), e>>, <<>>, TRUE) :
        ts \in Tokens, e \in Entries({strong, weak})}
    \cup
    {File(<<Secure>>, [id \in {} |-> strong], as, <<>>, <<Inline(addr), e>>, TRUE) :
        as \in Named, e \in Entries({addr, host, junk})}

\* A key that is too weak, and a file with another defect.
DefectiveFiles ==
    {File(<<[Secure EXCEPT !.secret = weak]>>, [id \in {} |-> strong],
          [id \in {} |-> addr], <<>>, <<>>, TRUE),
     File(<<Secure>>, [id \in {} |-> strong], [id \in {} |-> addr], <<>>, <<>>, FALSE)}

\* The server is to listen on an address given by name, or by none.
ListenFiles ==
    {[File(<<k>>, [id \in {} |-> strong], [id \in {} |-> addr], <<>>, <<>>, TRUE)
        EXCEPT !.authAddr = a] :
        k \in {Secure, [Secure EXCEPT !.notAfter = 2]}, a \in {host, junk}}

MCFiles == KeyFiles \cup RuleFiles \cup ListenFiles \cup DefectiveFiles

\* A rotation as it is documented: the old key stays listed until it is over.
Rotation ==
    {File(<<[id |-> old, secret |-> strong, notBefore |-> None, notAfter |-> 2], Secure>>,
          [id \in {} |-> strong], [id \in {} |-> addr], <<Inline(strong)>>, <<>>, TRUE)}
=============================================================================
