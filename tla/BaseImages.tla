------------------------------ MODULE BaseImages ------------------------------
(***************************************************************************)
(* The images the server is built in                                       *)
(* (jenkins/bitxorcore/baseImageDockerfileGenerator.py).  They are built   *)
(* in layers, each from the image of the layer below, by one job for each  *)
(* compiler configuration; the jobs run in parallel and meet in the        *)
(* registry, where images are told apart by nothing but their names.       *)
(*                                                                         *)
(* The content of an image is the set of packages built into it, each with *)
(* the flags it was built with.                                            *)
(***************************************************************************)
EXTENDS Naturals, Sequences, Tables

CONSTANTS
    Configurations,  \* compiler configurations: compiler and version, the sequence of
                     \* sanitizers, architecture, enable_code_coverage
    OperatingSystems,
    Plans            \* what a behaviour consists of, a bound: the base image jobs (operating
                     \* system, configuration, whether the conan layer is built), the images
                     \* pushed before (likewise), and the kinds of jobs that may be started
                     \* first, second and so on

\* What a base image job is started for.
BaseJobs == [os : OperatingSystems, configuration : Configurations, conan : BOOLEAN]

ASSUME BasePlansAssumption ==
    \A p \in Plans : p.base \subseteq BaseJobs /\ p.pushed \subseteq BaseJobs

\* An architecture (skylake or westmere, configurations/*.yaml) is none of the tags that
\* tell the layers apart.
ASSUME ConfigurationsAssumption ==
    \A configuration \in Configurations :
        /\ configuration.sanitizers \in Seq(STRING)
        /\ configuration.architecture \notin {"preimage1", "preimage2", "preimage3", "conan"}

VARIABLES
    plan,            \* the plan of the behaviour
    registry,        \* pushed images: name to content
    layers_left      \* the layers each base image job has still to build

base_vars == <<plan, registry, layers_left>>

SanitizersOf(configuration) ==
    {configuration.sanitizers[i] : i \in DOMAIN configuration.sanitizers}

-----------------------------------------------------------------------------
(* Names *)

LAYER_TO_IMAGE_TAG_MAP ==
    [os |-> <<"preimage1">>, boost |-> <<"preimage2">>, deps |-> <<"preimage3">>,
     test |-> <<>>, conan |-> <<"conan">>]

\* Mutation: the architecture is left out of the names of the layers below the last.
layer_image_name_NoArchitecture(os, configuration, layer) ==
    <<os, configuration.compiler>>
        \o (IF layer = "conan" THEN <<>> ELSE configuration.sanitizers)
        \o (IF layer = "test" THEN <<configuration.architecture>> ELSE <<>>)
        \o LAYER_TO_IMAGE_TAG_MAP[layer]

layer_image_name(os, configuration, layer) ==
    <<os, configuration.compiler>>
        \o (IF layer = "conan" THEN <<>>
            ELSE configuration.sanitizers \o <<configuration.architecture>>)
        \o LAYER_TO_IMAGE_TAG_MAP[layer]

\* The image a project is built in (runDockerBuild.py).
build_base_image_name(os, configuration, use_conan) ==
    <<os, configuration.compiler>>
        \o (IF use_conan THEN <<"conan">>
            ELSE configuration.sanitizers \o <<configuration.architecture>>)

-----------------------------------------------------------------------------
(* Contents *)

Package(name, flags) == [name |-> name, flags |-> flags]

IsClang(configuration) == configuration.compiler[1] = "clang"

\* -march, and for clang the standard library.
ArchAndStl(configuration) ==
    {configuration.architecture} \cup (IF IsClang(configuration) THEN {"libc++"} ELSE {})

generate_phase_boost(configuration) == {Package("boost", ArchAndStl(configuration))}

\* _zmq_descriptor: zmq is the one dependency that the thread sanitizer is to see into.
ZmqFlags(configuration) ==
    ArchAndStl(configuration) \cup (SanitizersOf(configuration) \cap {"thread"})

generate_phase_deps(configuration) ==
    {Package(name, ArchAndStl(configuration)) : name \in {"mongo-c-driver", "mongo-cxx-driver"}}
    \cup {Package("libzmq",
              ZmqFlags(configuration) \cup (IF IsClang(configuration) THEN {"no-avx"} ELSE {})),
          Package("cppzmq", ZmqFlags(configuration)),
          Package("rocksdb", ArchAndStl(configuration) \cup
              (IF "undefined" \in SanitizersOf(configuration) THEN {"rtti"} ELSE {}))}

\* openssl_configure: the first of the two sanitizers that is there.
OpensslFlags(configuration) ==
    {configuration.architecture} \cup
        (IF "address" \in SanitizersOf(configuration) THEN {"enable-asan"}
         ELSE IF "undefined" \in SanitizersOf(configuration) THEN {"enable-ubsan"} ELSE {})

generate_phase_test(configuration) ==
    {Package("googletest", ArchAndStl(configuration) \cup SanitizersOf(configuration)),
     Package("benchmark", ArchAndStl(configuration)),
     IF configuration.sanitizers = <<>> THEN Package("libssl-dev", {})
     ELSE Package("openssl", OpensslFlags(configuration))}

Generated(layer, configuration) ==
    CASE layer = "os"    -> {Package("cmake", {})}
      [] layer = "boost" -> generate_phase_boost(configuration)
      [] layer = "deps"  -> generate_phase_deps(configuration)
      [] layer = "test"  -> generate_phase_test(configuration)
      [] layer = "conan" -> {Package("conan", {})}

\* What the image of a configuration is to hold.
Contents(configuration, use_conan) ==
    UNION {Generated(layer, configuration) :
              layer \in IF use_conan THEN {"os", "conan"} ELSE {"os", "boost", "deps", "test"}}

\* The layer whose image a layer starts FROM.
Below == [boost |-> "os", deps |-> "boost", test |-> "deps", conan |-> "os"]

-----------------------------------------------------------------------------
(* The jobs *)

LayersOf(base_job) ==
    <<"os", "boost", "deps", "test">> \o (IF base_job.conan THEN <<"conan">> ELSE <<>>)

BaseInit ==
    /\ plan \in Plans
    /\ registry = [name \in {build_base_image_name(p.os, p.configuration, p.conan) : p \in plan.pushed}
                     |-> LET p == CHOOSE p \in plan.pushed :
                                    name = build_base_image_name(p.os, p.configuration, p.conan)
                         IN  Contents(p.configuration, p.conan)]
    /\ layers_left = [base_job \in plan.base |-> LayersOf(base_job)]

\* The layer is built from what its base is named in the registry now, and pushed.
build_and_push_layer(base_job) ==
    /\ layers_left[base_job] # <<>>
    /\ LET layer == Head(layers_left[base_job])
           from == IF layer \in DOMAIN Below
                   THEN layer_image_name(base_job.os, base_job.configuration, Below[layer]) ELSE <<>>
       IN  /\ layer \in DOMAIN Below => from \in DOMAIN registry
           /\ registry' = Store(registry, layer_image_name(base_job.os, base_job.configuration, layer),
                                Generated(layer, base_job.configuration)
                                    \cup (IF layer \in DOMAIN Below THEN registry[from] ELSE {}))
    /\ layers_left' = [layers_left EXCEPT ![base_job] = Tail(@)]
    /\ UNCHANGED plan

\* A command of the layer fails, and the job with it.
LayerFails(base_job) ==
    /\ layers_left[base_job] # <<>>
    /\ layers_left' = [layers_left EXCEPT ![base_job] = <<>>]
    /\ UNCHANGED <<plan, registry>>

BaseNext == \E base_job \in plan.base : build_and_push_layer(base_job) \/ LayerFails(base_job)

-----------------------------------------------------------------------------
\* An image that builds are made in holds what the layers of the configuration in its
\* name install, whatever order the jobs of several configurations push their layers in
\* (OptionsManager.layer_image_name and build_base_image_name).
BaseImagesAreTheirOwn ==
    \A os \in OperatingSystems, configuration \in Configurations, use_conan \in BOOLEAN :
        LET name == build_base_image_name(os, configuration, use_conan)
        IN  name \in DOMAIN registry => registry[name] = Contents(configuration, use_conan)
=============================================================================
