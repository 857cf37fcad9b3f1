-------------------------- MODULE ServiceFunctions --------------------------
(* From a registered function to the function that runs: Service and
   ServiceHandler (ServiceHandlerGenerator.cpp, Network.cpp), the client's
   function objects (FuncObjGenerator.cpp) and the runtime environment in which
   the generated code lives.

   A program registers a function for a method of a service, with the native
   type of the function.  A handler, made when the service is added to a server,
   compiles a skeleton for every registered function and installs it under the
   name of the method.  A client has a stub compiled for a method and a native
   type.  In the module of an environment a generated function has the name of
   its native type: CodeGen::createFunction returns a function that exists, and
   the engine its address.  The external function that a skeleton calls has a
   name made from the type as well, and the link map keeps what it has.       *)
EXTENDS Integers, Sequences, FiniteSets

CONSTANTS Method,     \* the methods of the service in the IDL
          Type,       \* native function types
          Func,       \* the program's functions
          Handler,    \* the handlers the program makes, one environment each
          NotMapped,  \* pairs of a method and a type whose arguments do not fit
          None,
          MaxRecords  \* bound: functions registered

ASSUME MaxRecordsAssumption == MaxRecords \in Nat
ASSUME NoneAssumption == None \notin Func \cup Method
ASSUME NotMappedAssumption == NotMapped \subseteq Method \X Type

VARIABLES records,      \* serviceFuncList_
          serviceError, \* the service has an error, and refuses what follows
          status,       \* of a handler: "none", "compiling", "ready" or "failed"
          next,         \* the record a handler compiles next
          code,         \* the skeletons in the module of an environment, by type
          links,        \* functionLinkMap_: the function behind an external name
          objs,         \* the KIARA_ServiceFuncObj that were allocated
          dispatch,     \* dispatchMap_: the object of a method, 0 for none
          objMap,       \* syncServiceFuncObjMap_: the object of a function, 0 for none
          stubs,        \* funcObjects_ of the client: the method a type's stub calls
          asked,        \* history: pairs of a method and a type the client asked a stub for
          calls         \* history: what the client's calls ran

vars == <<records, serviceError, status, next, code, links, objs, dispatch, objMap,
          stubs, asked, calls>>
-----------------------------------------------------------------------------
Record == [method : Method, type : Type, func : Func]
Busy == \E h \in Handler : status[h] = "compiling"

Init == /\ records = <<>> /\ serviceError = FALSE
        /\ status = [h \in Handler |-> "none"]
        /\ next = [h \in Handler |-> 1]
        /\ code = [h \in Handler |-> [t \in Type |-> None]]
        /\ links = [h \in Handler |-> [t \in Type |-> None]]
        /\ objs = <<>>
        /\ dispatch = [h \in Handler |-> [m \in Method |-> 0]]
        /\ objMap = [h \in Handler |-> [f \in Func |-> 0]]
        /\ stubs = [t \in Type |-> None]
        /\ asked = {} /\ calls = {}

\* Service::registerServiceFunc: refused once the service has an error; a type
\* that is no function, a function that is missing, a name that is not in the
\* IDL set one
Register(r) ==
  /\ ~Busy /\ ~serviceError /\ Len(records) < MaxRecords
  /\ records' = Append(records, r)
  /\ UNCHANGED <<serviceError, status, next, code, links, objs, dispatch, objMap,
                 stubs, asked, calls>>

RegisterFails ==
  /\ ~Busy /\ ~serviceError
  /\ serviceError' = TRUE
  /\ UNCHANGED <<records, status, next, code, links, objs, dispatch, objMap, stubs,
                 asked, calls>>

\* ServiceHandler::ServiceHandler: the environment is made, or not
NewHandler(h) ==
  /\ ~Busy /\ status[h] = "none"
  /\ \E s \in {"compiling", "failed"} : status' = [status EXCEPT ![h] = s]
  /\ UNCHANGED <<records, serviceError, next, code, links, objs, dispatch, objMap,
                 stubs, asked, calls>>
-----------------------------------------------------------------------------
Current(h) == records[next[h]]

\* The type that compileServiceFunc reads from the object of a function.  The
\* object may have been destroyed: then it reads memory that was freed, and may
\* have been given to another object.
TypesRead(o) == IF objs[o].freed THEN Type \cup {None} ELSE {objs[o].type}

\* compileServiceFunc: is the function known with this type?
Known(h, r) == IF objMap[h][r.func] = 0 THEN {FALSE}
               ELSE {t = r.type : t \in TypesRead(objMap[h][r.func])}

\* compileServiceFunc: a function that is known with this type is not compiled
Skip(h) ==
  /\ status[h] = "compiling" /\ next[h] <= Len(records)
  /\ TRUE \in Known(h, Current(h))
  /\ next' = [next EXCEPT ![h] = @ + 1]
  /\ UNCHANGED <<records, serviceError, status, code, links, objs, dispatch, objMap,
                 stubs, asked, calls>>

\* compileServiceFunc: an argument without a mapping, a result that is missing; an
\* error on the way to the skeleton, at any record.  The environment goes with the
\* handler, so what had been linked or generated in it does not matter.
CompileFails(h) ==
  /\ status[h] = "compiling" /\ next[h] <= Len(records)
  /\ FALSE \in Known(h, Current(h))
  /\ status' = [status EXCEPT ![h] = "failed"]
  /\ UNCHANGED <<records, serviceError, next, code, links, objs, dispatch, objMap,
                 stubs, asked, calls>>

\* Mutant: the external name is not made from the type
LinkedByName(h, r) ==
  IF \A t \in Type : links[h][t] = None THEN r.func
  ELSE links[h][CHOOSE t \in Type : links[h][t] # None]

\* compileServiceFunc, functionLinkMap_.insert: the external name keeps its function
Linked(h, r) == IF links[h][r.type] = None THEN r.func ELSE links[h][r.type]

\* CodeGen::createFunction, requestPointerToFunction: the function of that name,
\* if the module has one
Compiled(h, r) == IF code[h][r.type] = None
                    THEN [method |-> r.method, func |-> Linked(h, r)]
                    ELSE code[h][r.type]

\* Mutant: the new object is destroyed in place of the old one
InstallDestroysNew(h, r, o) ==
  /\ objs' = [Append(objs, [type |-> r.type, code |-> Compiled(h, r), freed |-> FALSE])
                EXCEPT ![o].freed = dispatch[h][r.method] # 0]
  /\ dispatch' = [dispatch EXCEPT ![h][r.method] = o]
  /\ objMap' = [objMap EXCEPT ![h][r.func] = o]

\* installServiceFunc: the object o of the method's new skeleton.  The old object
\* is destroyed, and stays the one of its function in syncServiceFuncObjMap_.
Install(h, r, o) ==
  LET old == dispatch[h][r.method]
      new == Append(objs, [type |-> r.type, code |-> Compiled(h, r), freed |-> FALSE])
  IN  /\ objs' = IF old = 0 THEN new ELSE [new EXCEPT ![old].freed = TRUE]
      /\ dispatch' = [dispatch EXCEPT ![h][r.method] = o]
      /\ objMap' = [objMap EXCEPT ![h][r.func] = o]

\* compileServiceFunc: the skeleton is compiled, linked and installed
Compile(h) ==
  /\ status[h] = "compiling" /\ next[h] <= Len(records)
  /\ FALSE \in Known(h, Current(h))
  /\ <<Current(h).method, Current(h).type>> \notin NotMapped
  /\ links' = [links EXCEPT ![h][Current(h).type] = Linked(h, Current(h))]
  /\ code' = [code EXCEPT ![h][Current(h).type] = Compiled(h, Current(h))]
  /\ Install(h, Current(h), Len(objs) + 1)
  /\ next' = [next EXCEPT ![h] = @ + 1]
  /\ UNCHANGED <<records, serviceError, status, stubs, asked, calls>>

\* The handler has compiled the functions registered so far; later ones are not
\* its own
HandlerReady(h) ==
  /\ status[h] = "compiling" /\ next[h] > Len(records)
  /\ status' = [status EXCEPT ![h] = "ready"]
  /\ UNCHANGED <<records, serviceError, next, code, links, objs, dispatch, objMap,
                 stubs, asked, calls>>
-----------------------------------------------------------------------------
\* Connection::generateClientFuncObj: one stub for each native type
GenerateStub(m, t) ==
  /\ <<m, t>> \notin asked /\ <<m, t>> \notin NotMapped
  /\ stubs' = [stubs EXCEPT ![t] = IF @ = None THEN m ELSE @]
  /\ asked' = asked \cup {<<m, t>>}
  /\ UNCHANGED <<records, serviceError, status, next, code, links, objs, dispatch,
                 objMap, calls>>

\* A call of the method m through the stub of type t, served by h
\* (performCall: a method that is not installed is answered with an error)
Call(m, t, h) ==
  /\ <<m, t>> \in asked /\ status[h] = "ready"
  /\ LET o == dispatch[h][stubs[t]]
     IN  calls' = calls \cup {[method |-> m, type |-> t, handler |-> h,
                               ran |-> IF o = 0 THEN None ELSE objs[o].code.func]}
  /\ UNCHANGED <<records, serviceError, status, next, code, links, objs, dispatch,
                 objMap, stubs, asked>>

Next == \/ \E r \in Record : Register(r)
        \/ RegisterFails
        \/ \E h \in Handler : \/ NewHandler(h) \/ Skip(h) \/ CompileFails(h)
                              \/ Compile(h) \/ HandlerReady(h)
        \/ \E m \in Method, t \in Type : \/ GenerateStub(m, t)
                                         \/ \E h \in Handler : Call(m, t, h)

Spec == Init /\ [][Next]_vars
-----------------------------------------------------------------------------
Seen(h) == 1..next[h] - 1
Skeleton == [method : Method, func : Func]
Object == [type : Type, code : Skeleton, freed : BOOLEAN]

\* The types of the variables
TypeOK ==
  /\ records \in Seq(Record) /\ serviceError \in BOOLEAN
  /\ status \in [Handler -> {"none", "compiling", "ready", "failed"}]
  /\ next \in [Handler -> Nat \ {0}]
  /\ \A h \in Handler : next[h] <= Len(records) + 1
  /\ code \in [Handler -> [Type -> Skeleton \cup {None}]]
  /\ links \in [Handler -> [Type -> Func \cup {None}]]
  /\ objs \in Seq(Object)
  /\ dispatch \in [Handler -> [Method -> 0..Len(objs)]]
  /\ objMap \in [Handler -> [Func -> 0..Len(objs)]]
  /\ stubs \in [Type -> Method \cup {None}]
  /\ asked \subseteq Method \X Type
  /\ \A c \in calls : c.method \in Method /\ c.type \in Type /\ c.handler \in Handler

\* A method never leads to an object that was destroyed, however often the method
\* and the functions are registered, and although the other map may hold one
\* (Network.cpp:999)
DispatchIsAlive ==
  \A h \in Handler, m \in Method : dispatch[h][m] # 0 => ~objs[dispatch[h][m]].freed

\* The service registers no type, function or method twice
Distinct == \A i, j \in DOMAIN records : i # j => /\ records[i].type # records[j].type
                                                  /\ records[i].func # records[j].func
                                                  /\ records[i].method # records[j].method

\* A call runs a function that was registered for its method, or no function,
\* when neither side uses a native type for two methods and the service no
\* function or method twice
CallsRunRegistered ==
  \A c \in calls :
    (\A a \in asked : a[2] = c.type => a[1] = c.method) /\ Distinct
    => \/ c.ran = None /\ \A i \in Seen(c.handler) : records[i].method # c.method
       \/ \E i \in Seen(c.handler) : records[i].method = c.method /\ records[i].func = c.ran

=============================================================================
