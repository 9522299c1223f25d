---------------------------- MODULE MC_FileCreate ----------------------------
(* Model values for FileCreate.  kernel/main.c runs sys_open from the main *)
(* thread only; MCThreads2 adds a second kernel thread making the same    *)
(* calls, which the file system's callers may be (spec.md, section 5).    *)
EXTENDS FileCreate

CONSTANTS main, t2, n1, n2, null

MCThreads1 == {main}
MCThreads2 == {main, t2}
MCNames == {n1, n2}

(* "/n1" and "/n2", the calls of kernel/main.c. *)
MCRootPaths == {<<"/", n>> : n \in MCNames}

(* Besides those: "/./n1" through the "." entry, "//n2", "/n1/n2" under a *)
(* regular file or a missing name, "/." and "/./." naming the root, and   *)
(* "/n2/" with a trailing '/'.                                             *)
MCPaths == MCRootPaths \cup
           {<<"/", ".", "/", n1>>, <<"/", "/", n2>>, <<"/", n1, "/", n2>>,
            <<"/", ".">>, <<"/", ".", "/", ".">>, <<"/", n2, "/">>}

(* kernel/main.c passes O_CREAT on every call. *)
MCCreatOnly == {TRUE}
MCAnyFlags == BOOLEAN
=============================================================================
