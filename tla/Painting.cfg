SPECIFICATION RendererSpec
CONSTANTS
  Backends = {"opengl3", "gles3", "d3d9", "d3d11", "d3d12", "vulkan"}
  f1 = f1
  f2 = f2
  f3 = f3
  Fonts <- MCFonts
  Clips <- MCClips
  Screen <- MCScreen
  None = None
  MaxFonts = 2
  MaxQuads = 2
  MaxText = 2
  MaxRuns = 2
  MaxScissors = 2
  MaxCalls = 4
  MaxFrames = 3
SYMMETRY FontSymmetry
INVARIANTS
  EveryQuadIsPaintedOnce
  ClippedAsSubmitted
  PainterOrder
  GlyphsShowTheirFont
CHECK_DEADLOCK FALSE
