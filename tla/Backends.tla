-------------------------------- MODULE Backends -------------------------------
(***************************************************************************)
(* The objects of meek-ui's six renderers: what renderer__init creates and *)
(* in which order, what waits for the first atlas or the first texture,    *)
(* and what renderer__shutdown releases.  A program is named for the       *)
(* function it is the body of; what that function cleans up on its own     *)
(* failures is created all or nothing.                                     *)
(***************************************************************************)
EXTENDS Device

Of(prefix, S) == {prefix \o x : x \in S}
Pair(x) == Of(x, {"0", "1"})

-----------------------------------------------------------------------------
(* opengl3_renderer.c and gles3_renderer.c.  Both link three programs, and *)
(* of two shaders leave the one that compiles when the other one does not. *)

Opengl3SetPixelFormat == Check \o Check
Opengl3CreateCoreContext == Get({"hglrc"})
Opengl3LoadGlFunctions == Check

Opengl3TextPipeline ==
  Compile({"text_vs", "text_fs"}) \o Get({"text_program"})
    \o Gen({"text_vao", "text_vbo"}) \o Get({"text_cpu_verts"})

Opengl3Pipeline ==
  Compile({"vs", "fs"}) \o Get({"program"}) \o Gen({"vao", "vbo"}) \o Get({"cpu_verts"})
    \o Opengl3TextPipeline

Opengl3ImagePipeline ==
  Compile({"image_vs", "image_fs"}) \o Get({"image_program"}) \o Gen({"image_vao", "image_vbo"})

Opengl3Init ==
  Get({"hdc"}) \o Opengl3SetPixelFormat \o Opengl3CreateCoreContext \o Check
    \o Opengl3LoadGlFunctions \o Opengl3Pipeline

Gles3TextPipeline ==
  Compile({"text_vs", "text_fs"}) \o Get({"text_program"})
    \o Gen({"text_vao", "text_vbo"}) \o Get({"text_cpu_verts"})

Gles3Pipeline ==
  Compile({"vs", "fs"}) \o Get({"program"}) \o Gen({"vao", "vbo"}) \o Get({"cpu_verts"})
    \o Gles3TextPipeline

Gles3ImagePipeline ==
  Compile({"image_vs", "image_fs"}) \o Get({"image_program"}) \o Gen({"image_vao", "image_vbo"})

GlObjects(pipeline) == Objects(pipeline) \ {"cpu_verts", "text_cpu_verts"}
GlNames ==
  GlObjects(Opengl3Pipeline) \cup GlObjects(Opengl3ImagePipeline)

(* They die with the context they were made in, whoever still names them.  *)
ContextGone(w, context) ==
  [w EXCEPT !.held = @ \ ({context} \cup GlNames), !.lost = @ \ GlNames, !.live = 0]

(* Mutant: renderer__shutdown forgets the array of the text pipeline.      *)
Gles3Released_Forgets ==
  {"vbo", "vao", "program", "cpu_verts", "text_vbo", "text_vao", "text_program",
   "image_vbo", "image_vao", "image_program"}

Gles3Released ==
  {"vbo", "vao", "program", "cpu_verts",
   "text_vbo", "text_vao", "text_program", "text_cpu_verts",
   "image_vbo", "image_vao", "image_program"}

Opengl3Released ==
  {"vbo", "vao", "program", "cpu_verts",
   "text_vbo", "text_vao", "text_program", "text_cpu_verts",
   "image_vbo", "image_vao", "image_program", "hglrc", "hdc"}

-----------------------------------------------------------------------------
(* d3d9_renderer.c.                                                        *)

D3d9CreateDevice == Get({"d3d9"}) \o Get({"device"})

D3d9TextPipeline ==
  Check \o Get({"text_vs"}) \o Get({"text_ps"}) \o Get({"text_decl"})
    \o Get({"text_vbo"}) \o Get({"text_cpu_verts"})

D3d9Pipeline ==
  Check \o Get({"vs"}) \o Get({"ps"}) \o Get({"decl"}) \o Get({"vbo"}) \o Get({"cpu_verts"})
    \o D3d9TextPipeline

D3d9ImagePipeline ==
  Check \o Get({"image_vs"}) \o Get({"image_ps"}) \o Get({"image_decl"}) \o Get({"image_vbo"})

D3d9Released ==
  {"image_vbo", "image_decl", "image_ps", "image_vs",
   "text_vbo", "text_decl", "text_ps", "text_vs", "vbo", "decl", "ps", "vs",
   "device", "d3d9", "cpu_verts", "text_cpu_verts"}

-----------------------------------------------------------------------------
(* d3d11_renderer.c.                                                       *)

D3d11CreateDeviceAndSwapchain == Get({"device", "context", "swapchain"})
D3d11CreateRtv == Get({"rtv"})

D3d11Shaders == Check \o Get({"vs"}) \o Get({"ps"}) \o Get({"input_layout"})
D3d11States ==
  Get({"vbo"}) \o Get({"cbuffer"}) \o Get({"blend_state"}) \o Get({"rasterizer_state"})
    \o Get({"cpu_verts"})

D3d11TextPipeline ==
  Check \o Get({"text_vs"}) \o Get({"text_ps"}) \o Get({"text_input_layout"})
    \o Get({"text_vbo"}) \o Get({"text_sampler"}) \o Get({"text_cpu_verts"})

D3d11ImagePipeline ==
  Check \o Get({"image_vs"}) \o Get({"image_ps"}) \o Get({"image_input_layout"})
    \o Get({"image_vbo"})

D3d11Released ==
  {"image_vbo", "image_input_layout", "image_ps", "image_vs",
   "text_sampler", "text_vbo", "text_input_layout", "text_ps", "text_vs",
   "rasterizer_state", "blend_state", "cbuffer", "vbo", "input_layout", "ps", "vs",
   "rtv", "swapchain", "context", "device", "cpu_verts", "text_cpu_verts"}

-----------------------------------------------------------------------------
(* d3d12_renderer.c.  The pipelines of text and images wait for the first  *)
(* upload, and are tried again at the next one until all are made.         *)

D3d12CreateDeviceAndQueue == Get({"device"}) \o Get({"queue"})
D3d12CreateSwapchain == Get({"swapchain"})
D3d12CreateRtvs ==
  Get({"rtv_heap"}) \o Get({"swap_buffers0"}) \o Get({"swap_buffers1"})
D3d12CreateCommandObjects ==
  Get({"allocators0"}) \o Get({"cmd_lists0"}) \o Get({"allocators1"}) \o Get({"cmd_lists1"})
D3d12CreateFence == Get({"fence"}) \o Get({"fence_event"})
D3d12CreateRootSignature == Check \o Get({"root_sig"})
D3d12CreateRectPso == Check \o Get({"rect_pso"})
Mapped(x) == Get({x}) \o Check
D3d12CreateRectVertexBuffers == Mapped("rect_vbo0") \o Mapped("rect_vbo1")
D3d12CreateSrvHeap == Get({"srv_heap"})
D3d12CreateTxVertexBuffers ==
  Mapped("text_vbo0") \o Mapped("image_vbo0") \o Mapped("text_vbo1") \o Mapped("image_vbo1")
D3d12CreateTxRootAndPipelines ==
  Check \o Get({"tx_root_sig"}) \o Check \o Get({"text_pso"}) \o Get({"image_pso"})

D3d12Init ==
  D3d12CreateDeviceAndQueue \o D3d12CreateSwapchain \o D3d12CreateRtvs
    \o D3d12CreateCommandObjects \o D3d12CreateFence \o D3d12CreateRootSignature
    \o D3d12CreateRectPso \o D3d12CreateRectVertexBuffers \o D3d12CreateSrvHeap
    \o D3d12CreateTxVertexBuffers

D3d12Released ==
  {"text_pso", "image_pso", "tx_root_sig", "rect_pso", "root_sig", "srv_heap",
   "fence", "fence_event", "rtv_heap", "swapchain", "queue", "device"}
    \cup UNION {Pair(x) : x \in {"text_vbo", "image_vbo", "rect_vbo", "cmd_lists",
                                 "allocators", "swap_buffers"}}

-----------------------------------------------------------------------------
(* vulkan_renderer.c.  What text needs waits for the first atlas, and is   *)
(* tried again at the next one until all of it is made.                    *)

VulkanCreateInstance == Get({"instance"})
VulkanCreateSurface == Get({"surface"})
VulkanPickPhysicalDevice == Check
VulkanCreateDevice == Get({"device"})
VulkanCreateSwapchain ==
  Check \o Get({"swapchain"}) \o Get({"swap_views0"}) \o Get({"swap_views1"})
VulkanCreateRenderPass == Get({"render_pass"})
VulkanCreateFramebuffers == Get({"framebuffers0"}) \o Get({"framebuffers1"})
VulkanCreateCommandPool == Get({"command_pool"}) \o Check
VulkanCreateSync ==
  Get({"sem_acquire0"}) \o Get({"sem_present0"}) \o Get({"in_flight0"})
    \o Get({"sem_acquire1"}) \o Get({"sem_present1"}) \o Get({"in_flight1"})
VulkanCreateRectShaders == Get({"rect_vs"}) \o Get({"rect_fs"})
VulkanCreateRectPipeline ==
  VulkanCreateRectShaders \o Get({"rect_pipeline_layout"}) \o Get({"rect_pipeline"})
Backed(buffer, memory) == Get({buffer}) \o Check \o Mapped(memory)
VulkanCreateRectVertexBuffers ==
  Backed("rect_vbo0", "rect_vbo_mem0") \o Backed("rect_vbo1", "rect_vbo_mem1")

VulkanCreateTxSampler == Get({"tx_sampler"})
VulkanCreateTxDescriptorLayout == Get({"tx_dsl"})
VulkanCreateTxDescriptorPool == Get({"tx_descriptor_pool"})
VulkanCreateTextPipeline ==
  Get({"tx_vs"}) \o Get({"text_fs"}) \o Get({"text_pipeline_layout"}) \o Get({"text_pipeline"})
VulkanCreateTxVertexBuffers ==
  Backed("text_vbo0", "text_vbo_mem0") \o Backed("text_vbo1", "text_vbo_mem1")
VulkanTxPlumbing ==
  VulkanCreateTxSampler \o VulkanCreateTxDescriptorLayout \o VulkanCreateTxDescriptorPool
    \o VulkanCreateTextPipeline \o VulkanCreateTxVertexBuffers

VulkanInit ==
  VulkanCreateInstance \o VulkanCreateSurface \o VulkanPickPhysicalDevice
    \o VulkanCreateDevice \o VulkanCreateSwapchain \o VulkanCreateRenderPass
    \o VulkanCreateFramebuffers \o VulkanCreateCommandPool \o VulkanCreateSync
    \o VulkanCreateRectPipeline \o VulkanCreateRectVertexBuffers

VulkanSwapchain ==
  Pair("framebuffers") \cup Pair("swap_views") \cup {"swapchain"}

VulkanReleased ==
  VulkanSwapchain
    \cup UNION {Pair(x) : x \in {"text_vbo", "text_vbo_mem", "rect_vbo", "rect_vbo_mem",
                                 "in_flight", "sem_acquire", "sem_present"}}
    \cup {"text_pipeline", "text_pipeline_layout", "tx_vs", "text_fs", "tx_dsl",
          "tx_sampler", "tx_descriptor_pool", "rect_pipeline", "rect_pipeline_layout",
          "rect_vs", "rect_fs", "command_pool", "render_pass", "device", "surface", "instance"}

-----------------------------------------------------------------------------
(* The renderer that a build is linked with.                               *)

Apis == {"opengl3", "gles3", "d3d9", "d3d11", "d3d12", "vulkan"}

RendererProgram(api) ==
  CASE api = "opengl3" -> Opengl3Init
    [] api = "gles3"   -> Gles3Pipeline
    [] api = "d3d9"    -> D3d9CreateDevice \o D3d9Pipeline
    [] api = "d3d11"   -> D3d11CreateDeviceAndSwapchain \o D3d11CreateRtv
                            \o D3d11Shaders \o D3d11States \o D3d11TextPipeline
    [] api = "d3d12"   -> D3d12Init
    [] api = "vulkan"  -> VulkanInit

Gl == {"opengl3", "gles3"}
Pooled == {"d3d12", "vulkan"}  \* keep their textures in a pool of their own

(* What the first texture waits for, unless it is built.                   *)
TxProgram(api) ==
  CASE api = "d3d12"  -> D3d12CreateTxRootAndPipelines
    [] api = "vulkan" -> VulkanTxPlumbing
    [] OTHER          -> <<>>

(* What the first image drawn waits for, and the object that tells that it *)
(* need not be made: not always the last one.                              *)
ImageProgram(api) ==
  CASE api = "opengl3" -> Opengl3ImagePipeline
    [] api = "gles3"   -> Gles3ImagePipeline
    [] api = "d3d9"    -> D3d9ImagePipeline
    [] api = "d3d11"   -> D3d11ImagePipeline
    [] OTHER           -> <<>>

ImageReady(w) == w.held \cap {"image_program", "image_ps"} # {}

Released(api) ==
  CASE api = "opengl3" -> Opengl3Released
    [] api = "gles3"   -> Gles3Released
    [] api = "d3d9"    -> D3d9Released
    [] api = "d3d11"   -> D3d11Released
    [] api = "d3d12"   -> D3d12Released
    [] api = "vulkan"  -> VulkanReleased

Owned(api) ==
  Objects(RendererProgram(api)) \cup Objects(TxProgram(api)) \cup Objects(ImageProgram(api))

(* renderer__init, in the context that the world counts next.              *)
RendererInit(w) ==
  {IF v.ok THEN [v EXCEPT !.ctx = v.made + 1, !.made = @ + 1] ELSE v :
     v \in Run({w}, RendererProgram(w.api))}

(* renderer__shutdown: what is released, and then the whole record zeroed. *)
RendererShutdown(w) ==
  LET mine == w.held \cap Owned(w.api)
      v == [w EXCEPT !.held = @ \ mine, !.lost = @ \cup (mine \ Released(w.api)),
                     !.ctx = 0, !.built = FALSE,
                     !.live = IF w.api \in Pooled THEN 0 ELSE @]
  IN  IF w.api = "opengl3" THEN ContextGone(v, "hglrc") ELSE v
=============================================================================
