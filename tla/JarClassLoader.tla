---------------------------- MODULE JarClassLoader -----------------------------
(******************************************************************************)
(* The class loaders of java/classloading/jcl-tailf: each JarClassLoader asks *)
(* a list of proxy loaders, the last of which are its own LocalLoader and     *)
(* those of other JarClassLoaders.  A proxy loader keeps itself from being    *)
(* asked again for a class it is just asked for (attempt and dismiss), which  *)
(* is what ends the recursion when the context loader of the thread is a      *)
(* JarClassLoader.  Threads call loadClass; the JVM calls it too, for the     *)
(* superclass of a class that is being defined.                               *)
(*                                                                            *)
(* The classes are those of the jars.  The loader of the application has none *)
(* of them, so the proxy loaders that only ask it (current, parent, system)   *)
(* find nothing, asked or skipped, and are left out of the list.              *)
(*                                                                            *)
(* loadClass sorts the list first.  It is sorted already, and up to Java 7    *)
(* sorting it again does not count as a change to those who iterate over it.  *)
(******************************************************************************)
EXTENDS Integers, Sequences, FiniteSets, SequencesExt

CONSTANTS
  JcThread,    \* threads
  Jcl,         \* JarClassLoaders
  JcClass,     \* classes
  JcSuper,     \* the superclass of each, or NoClass: one of the JVM's own
  JcPackage,   \* the package of each
  JcCall,      \* the calls of loadClass that threads make: <<loader, class>>
  JcJar,       \* the classes in the jar of each JarClassLoader
  NoClass, App,
  JcParallel,  \* the JVM does not lock a loader that defines a class; a lock only takes steps away
  JcCalm,      \* jars change only while no class is being loaded, as lists always do
  JcCalls,     \* bound: calls of the threads, the last of which is made when the others have returned
  JcChanges    \* bound: changes of jars and lists, which come before the last call

ASSUME JcAssumption ==
  /\ JcSuper \in [JcClass -> JcClass \union {NoClass}]
  /\ JcJar \in [Jcl -> SUBSET JcClass]
  /\ JcParallel \in BOOLEAN /\ JcCalm \in BOOLEAN /\ JcCalls \in Nat /\ JcChanges \in Nat

VARIABLES
  jcContext,      \* the context loader of the threads: never changes
  jcLoaders,      \* loaders, of each: the JarClassLoaders whose LocalLoaders are in it
  jcContents,     \* jarEntryContents of each
  jcClasses,      \* classes of each: the cache
  jcAttempts,     \* currentLoadAttempts of each proxy loader
  jcDefined, jcInitiated, jcPackages,  \* in the JVM, of each: classes it has defined, classes the JVM
                                       \* has found through it, packages it has defined
  jcStack,        \* of each thread: the calls of loadClass it is in, the innermost last
  jcRet,          \* of each thread: how its last call ended
  jcWant,         \* ghost: how it should end; Overlapped when something else has happened meanwhile
  jcLeft, jcChangesLeft     \* bounds

jcVars == <<jcContext, jcLoaders, jcContents, jcClasses, jcAttempts, jcDefined,
            jcInitiated, jcPackages, jcStack, jcRet, jcWant, jcLeft, jcChangesLeft>>
jcJvm == <<jcDefined, jcInitiated, jcPackages>>
jcRest == <<jcContext, jcLoaders, jcContents, jcWant, jcLeft, jcChangesLeft>>

\* A call ends with the loader that has defined the class, with ClassNotFoundException, or with an
\* error: NoClassDefFoundError, LinkageError, IllegalArgumentException.
NotFound == "not found"
Error == "error"
Overlapped == "overlapped"

JcKind == {"thread", "local"}
JcProxy == [kind : JcKind, of : Jcl]

\* The list in its order: the context loader of the thread comes before the LocalLoaders, and these,
\* of equal order, as they were added, for the sort is stable.
Proxies(l) ==
  <<[kind |-> "thread", of |-> l]>>
    \o [i \in DOMAIN jcLoaders[l] |-> [kind |-> "local", of |-> jcLoaders[l][i]]]

\* As Test.java makes them: each has its jar, and the others' LocalLoaders.
JcInit ==
  /\ jcContext \in Jcl \union {App}
  /\ jcLoaders = [l \in Jcl |-> <<l>> \o SetToSeq(Jcl \ {l})]
  /\ jcContents = JcJar
  /\ jcClasses = [l \in Jcl |-> {}] /\ jcDefined = jcClasses /\ jcInitiated = jcClasses
  /\ jcPackages = jcClasses /\ jcAttempts = [p \in JcProxy |-> {}]
  /\ jcStack = [t \in JcThread |-> <<>>] /\ jcRet = [t \in JcThread |-> NotFound]
  /\ jcWant = [t \in JcThread |-> Overlapped]
  /\ jcLeft = JcCalls /\ jcChangesLeft = JcChanges

--------------------------------------------------------------------------------
(* What a call should give: the reference.                                    *)

\* The LocalLoaders that are asked in the end, those of the context loader first.
AskedInTurn(l) == (IF jcContext = App THEN <<>> ELSE jcLoaders[jcContext]) \o jcLoaders[l]

\* The first that has the class gives it, provided it can define it: that needs the superclass, and
\* no class can be defined a second time.
Answer(l, c) ==
  LET answer[x \in Jcl \X JcClass] ==
        LET asked == AskedInTurn(x[1])
            have == {i \in DOMAIN asked : x[2] \in jcClasses[asked[i]] \union jcContents[asked[i]]}
            m == asked[CHOOSE i \in have : \A j \in have : i <= j]
            super == JcSuper[x[2]]
        IN  IF have = {} THEN NotFound
            ELSE IF x[2] \in jcClasses[m] THEN m
            ELSE IF x[2] \in jcDefined[m] THEN Error
            ELSE IF super = NoClass \/ super \in jcInitiated[m] \union jcDefined[m] THEN m
            ELSE IF answer[<<m, super>>] \in Jcl THEN m ELSE Error
  IN  answer[<<l, c>>]

--------------------------------------------------------------------------------
(* loadClass                                                                  *)

Frame(l, c) == [l |-> l, cls |-> c, i |-> 1, pc |-> "check", res |-> NotFound]

Top(t) == Last(jcStack[t])
Proxy(f) == Proxies(f.l)[f.i]
At(t, pc) == jcStack[t] # <<>> /\ Top(t).pc = pc

AtRest == \A t \in JcThread : jcStack[t] = <<>>

\* The innermost call goes on as f; calls g; or ends with r.
Proceeds(t, f) == jcStack' = [jcStack EXCEPT ![t] = Append(Front(@), f)] /\ UNCHANGED jcRet
Calls(t, f, g) == jcStack' = [jcStack EXCEPT ![t] = Append(Append(Front(@), f), g)] /\ UNCHANGED jcRet
Ends(t, r) == jcStack' = [jcStack EXCEPT ![t] = Front(@)] /\ jcRet' = [jcRet EXCEPT ![t] = r]

\* The next proxy loader of the list.
GoesOn(t) == Proceeds(t, [Top(t) EXCEPT !.i = @ + 1, !.pc = "check"])

\* A thread calls loadClass.  What the others are about may now end differently.
loadClass(t, l, c) ==
  /\ jcStack[t] = <<>> /\ jcLeft > 0 /\ (jcLeft = 1 => AtRest)
  /\ jcStack' = [jcStack EXCEPT ![t] = <<Frame(l, c)>>]
  /\ jcWant' = [u \in JcThread |-> IF u = t /\ AtRest THEN Answer(l, c)
                                   ELSE IF u = t \/ jcStack[u] # <<>> THEN Overlapped ELSE jcWant[u]]
  /\ jcLeft' = jcLeft - 1
  /\ UNCHANGED <<jcContext, jcLoaders, jcContents, jcClasses, jcAttempts, jcJvm, jcRet,
                 jcChangesLeft>>

\* mutant: nothing keeps a proxy loader from being asked again
isAlreadyAttemptedNever(p, c) == FALSE
isAlreadyAttempted(p, c) == c \in jcAttempts[p]

\* The loop over the proxy loaders, and the first test in each.
Check(t) ==
  LET f == Top(t)
  IN  /\ At(t, "check")
      /\ IF f.i > Len(Proxies(f.l)) THEN Ends(t, NotFound)
         ELSE IF isAlreadyAttempted(Proxy(f), f.cls) THEN GoesOn(t)
         ELSE Proceeds(t, [f EXCEPT !.pc = "attempt"])
      /\ UNCHANGED <<jcRest, jcJvm, jcClasses, jcAttempts>>

Attempt(t) ==
  LET f == Top(t)
  IN  /\ At(t, "attempt")
      /\ jcAttempts' = [jcAttempts EXCEPT ![Proxy(f)] = @ \union {f.cls}]
      /\ Proceeds(t, [f EXCEPT !.pc = IF Proxy(f).kind = "local" THEN "get" ELSE "ask"])
      /\ UNCHANGED <<jcRest, jcJvm, jcClasses>>

\* The loader of the application finds nothing; a JarClassLoader is asked like any other.
Ask(t) ==
  LET f == Top(t)
  IN  /\ At(t, "ask")
      /\ IF jcContext = App THEN Proceeds(t, [f EXCEPT !.pc = "dismiss", !.res = NotFound])
         ELSE Calls(t, [f EXCEPT !.pc = "asked"], Frame(jcContext, f.cls))
      /\ UNCHANGED <<jcRest, jcJvm, jcClasses, jcAttempts>>

\* Control is back in a frame whose call has ended: the frame is the last again.
AskReturned(t) ==
  /\ At(t, "asked")
  /\ Proceeds(t, [Top(t) EXCEPT !.pc = "dismiss", !.res = jcRet[t]])
  /\ UNCHANGED <<jcRest, jcJvm, jcClasses, jcAttempts>>

\* LocalLoader: the cache.
Get(t) ==
  LET f == Top(t)
      m == Proxy(f).of
  IN  /\ At(t, "get")
      /\ Proceeds(t, [f EXCEPT !.pc = "dismiss", !.res = IF f.cls \in jcClasses[m] THEN m ELSE NotFound])
      /\ UNCHANGED <<jcRest, jcJvm, jcClasses, jcAttempts>>

\* The finally block, and what follows it.
Dismiss(t) ==
  LET f == Top(t)
  IN  /\ At(t, "dismiss")
      /\ jcAttempts' = [jcAttempts EXCEPT ![Proxy(f)] = @ \ {f.cls}]
      /\ IF f.res # NotFound THEN Ends(t, f.res)
         ELSE IF Proxy(f).kind = "local" THEN Proceeds(t, [f EXCEPT !.pc = "bytes"])
         ELSE GoesOn(t)
      /\ UNCHANGED <<jcRest, jcJvm, jcClasses>>

loadClassBytes(t) ==
  LET f == Top(t)
  IN  /\ At(t, "bytes")
      /\ IF f.cls \in jcContents[Proxy(f).of] THEN Proceeds(t, [f EXCEPT !.pc = "again"]) ELSE GoesOn(t)
      /\ UNCHANGED <<jcRest, jcJvm, jcClasses, jcAttempts>>

\* Some other thread has raced and won loading this class.
GetAgain(t) ==
  LET f == Top(t)
      m == Proxy(f).of
  IN  /\ At(t, "again")
      /\ IF f.cls \in jcClasses[m] THEN Ends(t, m) ELSE Proceeds(t, [f EXCEPT !.pc = "define"])
      /\ UNCHANGED <<jcRest, jcJvm, jcClasses, jcAttempts>>

\* Whether the thread is in defineClass of m.
Defines(t, m) ==
  \E i \in DOMAIN jcStack[t] : jcStack[t][i].pc \in {"super", "defined"} /\ Proxy(jcStack[t][i]).of = m

\* defineClass: the JVM locks the loader, and looks for the superclass through it.
defineClass(t) ==
  LET f == Top(t)
      m == Proxy(f).of
      super == JcSuper[f.cls]
  IN  /\ At(t, "define")
      /\ JcParallel \/ \A u \in JcThread \ {t} : ~Defines(u, m)
      /\ IF super = NoClass \/ super \in jcInitiated[m] \union jcDefined[m]
           THEN Proceeds(t, [f EXCEPT !.pc = "defined"])
           ELSE Calls(t, [f EXCEPT !.pc = "super"], Frame(m, super))
      /\ UNCHANGED <<jcRest, jcJvm, jcClasses, jcAttempts>>

\* Without its superclass a class cannot be defined.
SuperLoaded(t) ==
  LET f == Top(t)
      found == jcRet[t] \in Jcl
  IN  /\ At(t, "super")
      /\ IF found THEN Proceeds(t, [f EXCEPT !.pc = "defined"]) ELSE Ends(t, Error)
      /\ jcInitiated' = IF found THEN [jcInitiated EXCEPT ![Proxy(f).of] = @ \union {JcSuper[f.cls]}]
                        ELSE jcInitiated
      /\ UNCHANGED <<jcRest, jcClasses, jcAttempts, jcDefined, jcPackages>>

\* A second definition is a LinkageError.
Defined(t) ==
  LET f == Top(t)
      m == Proxy(f).of
  IN  /\ At(t, "defined")
      /\ IF f.cls \in jcDefined[m] THEN Ends(t, Error) /\ UNCHANGED jcDefined
         ELSE /\ jcDefined' = [jcDefined EXCEPT ![m] = @ \union {f.cls}]
              /\ Proceeds(t, [f EXCEPT !.pc = IF JcPackage[f.cls] \in jcPackages[m] THEN "put" ELSE "package"])
      /\ UNCHANGED <<jcRest, jcClasses, jcAttempts, jcInitiated, jcPackages>>

\* definePackage throws when the package has been defined since getPackage returned null.
definePackage(t) ==
  LET f == Top(t)
      m == Proxy(f).of
  IN  /\ At(t, "package")
      /\ IF JcPackage[f.cls] \in jcPackages[m] THEN Ends(t, Error) ELSE Proceeds(t, [f EXCEPT !.pc = "put"])
      /\ jcPackages' = [jcPackages EXCEPT ![m] = @ \union {JcPackage[f.cls]}]
      /\ UNCHANGED <<jcRest, jcClasses, jcAttempts, jcDefined, jcInitiated>>

Put(t) ==
  LET f == Top(t)
      m == Proxy(f).of
  IN  /\ At(t, "put")
      /\ jcClasses' = [jcClasses EXCEPT ![m] = @ \union {f.cls}]
      /\ Ends(t, m)
      /\ UNCHANGED <<jcRest, jcJvm, jcAttempts>>

LoadStep(t) ==
  \/ Check(t) \/ Attempt(t) \/ Ask(t) \/ AskReturned(t) \/ Get(t) \/ Dismiss(t) \/ loadClassBytes(t)
  \/ GetAgain(t) \/ defineClass(t) \/ SuperLoaded(t) \/ Defined(t) \/ definePackage(t) \/ Put(t)

--------------------------------------------------------------------------------
(* Changes of jars and lists                                                  *)

MayChange ==
  /\ jcLeft = 1 /\ (JcCalm => AtRest)
  /\ jcWant' = [t \in JcThread |-> IF jcStack[t] = <<>> THEN jcWant[t] ELSE Overlapped]
  /\ UNCHANGED <<jcContext, jcAttempts, jcJvm, jcStack, jcRet, jcLeft>>

\* The changes that are counted: adding a jar is not, for it does nothing the second time.
Changes == MayChange /\ jcChangesLeft > 0 /\ jcChangesLeft' = jcChangesLeft - 1

\* Entries that are already there are ignored.
add(l) ==
  /\ MayChange
  /\ jcContents' = [jcContents EXCEPT ![l] = @ \union JcJar[l]]
  /\ UNCHANGED <<jcLoaders, jcClasses, jcChangesLeft>>

\* unload throws for a class that is not among the contents: the cache has lost it all the same.
unloadClass(l, c) ==
  /\ Changes
  /\ jcClasses' = [jcClasses EXCEPT ![l] = @ \ {c}]
  /\ jcContents' = [jcContents EXCEPT ![l] = @ \ {c}]
  /\ UNCHANGED jcLoaders

addLoader(l, m) ==
  /\ Changes /\ AtRest
  /\ jcLoaders' = [jcLoaders EXCEPT ![l] = Append(@, m)]
  /\ UNCHANGED <<jcContents, jcClasses>>

\* The first LocalLoader of m goes.
removeLoader(l, m) ==
  /\ Changes /\ AtRest
  /\ jcLoaders' = [jcLoaders EXCEPT ![l] = RemoveFirst(@, m)]
  /\ UNCHANGED <<jcContents, jcClasses>>

JcNext ==
  \/ \E t \in JcThread : LoadStep(t) \/ \E x \in JcCall : loadClass(t, x[1], x[2])
  \/ \E l \in Jcl : add(l) \/ \E c \in JcClass : unloadClass(l, c)
  \/ \E l, m \in Jcl : addLoader(l, m) \/ removeLoader(l, m)

JcSpec == JcInit /\ [][JcNext]_jcVars

--------------------------------------------------------------------------------
(* Properties                                                                 *)

\* Each variable has its type.
JcTypeOK ==
  /\ \A l \in Jcl : /\ jcLoaders[l] \in Seq(Jcl)
                    /\ jcContents[l] \subseteq JcClass /\ jcDefined[l] \subseteq JcClass
                    /\ jcInitiated[l] \subseteq JcClass
  /\ \A p \in JcProxy : jcAttempts[p] \subseteq JcClass
  /\ \A t \in JcThread : jcRet[t] \in Jcl \union {NotFound, Error}

\* The recursion ends, whatever the context loaders and however threads dismiss each other's
\* attempts: a thread is never deeper than once for each thread and once more in one loadClass.
JcRecursionEnds ==
  \A t \in JcThread, l \in Jcl, c \in JcClass :
    Len(SelectSeq(jcStack[t], LAMBDA f : f.l = l /\ f.cls = c)) <= Cardinality(JcThread) + 1

\* No attempt is left behind by an exception or by another thread: a proxy loader counts as being asked
\* for a class only while it is.
JcNothingLeftAttempted ==
  \A p \in JcProxy, c \in JcClass :
    c \in jcAttempts[p] =>
      \E t \in JcThread : \E i \in DOMAIN jcStack[t] :
        LET f == jcStack[t][i]
        IN  f.cls = c /\ f.pc \in {"get", "ask", "asked", "dismiss"} /\ Proxy(f) = p

\* unloadClass never finds that "something is very wrong": what is in the cache is in the jars too.
JcInSync == JcCalm => \A l \in Jcl : jcClasses[l] \subseteq jcContents[l] \intersect jcDefined[l]

\* A load that nothing overlapped ends as it should, after whatever loads, failures and changes there
\* were before it: it finds the first loader that has the class, and leaves out none.
JcRightAlone == \A t \in JcThread : jcStack[t] = <<>> /\ jcWant[t] # Overlapped => jcRet[t] = jcWant[t]

\* The class loaders find what there is and come to an end.
JcSafe == JcTypeOK /\ JcRecursionEnds /\ JcNothingLeftAttempted /\ JcInSync /\ JcRightAlone
================================================================================
