------------------------------- MODULE MgText --------------------------------
(***************************************************************************)
(* The algorithms on bytes that the rest stands on, each a module: growing *)
(* buffers (Mbuf), address lists (MgAcl), URI paths normalised in place    *)
(* (MgUri), names in DNS messages (MgNames), pages with directives (MgSsi) *)
(* and glob patterns (MgGlobs).  A behaviour is about one of them.         *)
(***************************************************************************)
EXTENDS Mbuf, MgAcl, MgUri, MgNames, MgSsi, MgGlobs

VARIABLE
  about  \* which of them

vars == <<about, mbufVars, aclVars, uriVars, namesVars, ssiVars, globVars>>

Init == /\ about = "none"
        /\ MbufInit /\ AclInit /\ UriInit /\ NamesInit /\ SsiInit /\ GlobInit

On(what) == about \in {"none", what} /\ about' = what

BufferStep == /\ On("buffer") /\ MbufNext
              /\ UNCHANGED <<aclVars, uriVars, namesVars, ssiVars, globVars>>
AclStep == /\ On("acl") /\ AclNext
           /\ UNCHANGED <<mbufVars, uriVars, namesVars, ssiVars, globVars>>
PathStep == /\ On("path") /\ UriNext
            /\ UNCHANGED <<mbufVars, aclVars, namesVars, ssiVars, globVars>>
NameStep == /\ On("name") /\ NamesNext
            /\ UNCHANGED <<mbufVars, aclVars, uriVars, ssiVars, globVars>>
PageStep == /\ On("page") /\ SsiNext
            /\ UNCHANGED <<mbufVars, aclVars, uriVars, namesVars, globVars>>
MatchStep == /\ On("match") /\ Match
             /\ UNCHANGED <<mbufVars, aclVars, uriVars, namesVars, ssiVars>>

Next == BufferStep \/ AclStep \/ PathStep \/ NameStep \/ PageStep \/ MatchStep
Spec == Init /\ [][Next]_vars
================================================================================
